---- MODULE Spec2Model ----
(***************************************************************************)
(* Model of the MoltMoon SDK (src/src/index.ts, lines 1-374) and of the    *)
(* `launch` command of its CLI (src/src/cli.ts).                           *)
(*                                                                         *)
(* Strings that the code parses or formats (amounts, fees, intent values)  *)
(* are sequences of one-character strings, so that parseUnits, formatUnits *)
(* and BigInt are conversions with their own behaviour.  Every `await` of  *)
(* the code is a suspension point: an action runs the code from one await  *)
(* to the next.                                                            *)
(*                                                                         *)
(* Spec is the SDK as its callers drive it.  UnitSpec calls the private    *)
(* validation and image methods on their own, on parameters, buffers (as   *)
(* sequences of bytes) and data URLs drawn from bounded sets.              *)
(***************************************************************************)
EXTENDS Integers, Sequences, FiniteSets, TLC

(***************************************************************************)
(* Bounds of the model.                                                    *)
(***************************************************************************)
\* largest whole part of an amount string (usdcIn, tokensIn)
MaxWhole == 10

\* invocations that may be in flight on the one SDK instance
Calls == {1, 2}

(***************************************************************************)
(* Character strings.                                                      *)
(***************************************************************************)
DigitChars == <<"0", "1", "2", "3", "4", "5", "6", "7", "8", "9">>

IsDigit(ch) == \E i \in 1..10 : DigitChars[i] = ch

DigitVal(ch) == (CHOOSE i \in 1..10 : DigitChars[i] = ch) - 1

AllDigits(s) == \A i \in 1..Len(s) : IsDigit(s[i])

\* s.slice(a - 1, b): the characters of s at positions a..b (1-based), clipped
\* to the string
Slice(s, a, b) ==
    LET hi == IF b < Len(s) THEN b ELSE Len(s)
    IN  SubSeq(s, a, hi)

RECURSIVE Pow10(_)
Pow10(n) == IF n = 0 THEN 1 ELSE 10 * Pow10(n - 1)

\* value of a string of decimal digits; the empty string counts 0
RECURSIVE StrToNat(_)
StrToNat(s) ==
    IF Len(s) = 0 THEN 0
    ELSE 10 * StrToNat(Slice(s, 1, Len(s) - 1)) + DigitVal(s[Len(s)])

\* decimal digits of a natural number, as n.toString() prints them
RECURSIVE NatToStr(_)
NatToStr(n) ==
    IF n < 10 THEN <<DigitChars[n + 1]>>
    ELSE Append(NatToStr(n \div 10), DigitChars[(n % 10) + 1])

\* position of the first "." of s, 0 when there is none
DotPos(s) ==
    IF \E i \in 1..Len(s) : s[i] = "."
    THEN CHOOSE i \in 1..Len(s) : s[i] = "." /\ \A j \in 1..(i - 1) : s[j] # "."
    ELSE 0

\* fraction.replace(/(0+)$/, '')
RECURSIVE StripTrailingZeros(_)
StripTrailingZeros(s) ==
    IF Len(s) > 0 /\ s[Len(s)] = "0"
    THEN StripTrailingZeros(Slice(s, 1, Len(s) - 1))
    ELSE s

\* s.padStart(n, '0')
RECURSIVE PadStart0(_, _)
PadStart0(s, n) == IF Len(s) >= n THEN s ELSE PadStart0(<<"0">> \o s, n)

\* s.padEnd(n, '0')
RECURSIVE PadEnd0(_, _)
PadEnd0(s, n) == IF Len(s) >= n THEN s ELSE PadEnd0(Append(s, "0"), n)

(***************************************************************************)
(* viem's parseUnits and formatUnits, as buy() uses them with 6 decimals.  *)
(***************************************************************************)
\* decimals of USDC, the second argument of parseUnits/formatUnits in buy()
UsdcDecimals == 6

\* the pieces value.split('.') and the sign test give
DecSplit(value) ==
    LET neg  == Len(value) > 0 /\ value[1] = "-"
        body == IF neg THEN Tail(value) ELSE value
        dot  == DotPos(body)
    IN  [ negative |-> neg,
          hasDot   |-> dot # 0,
          integer  |-> IF dot = 0 THEN body ELSE Slice(body, 1, dot - 1),
          fraction |-> IF dot = 0 THEN <<>> ELSE Slice(body, dot + 1, Len(body)) ]

\* /^(-?)([0-9]*)\.?([0-9]*)$/.test(value)
IsDecimalString(value) ==
    LET p == DecSplit(value) IN AllDigits(p.integer) /\ AllDigits(p.fraction)

\* parseUnits(value, decimals): the amount in smallest units, the fraction
\* rounded half up at `decimals` digits; ok = FALSE when parseUnits throws
parseUnits(value, decimals) ==
    IF ~IsDecimalString(value) THEN [ok |-> FALSE, wei |-> 0]
    ELSE
      LET p        == DecSplit(value)
          fraction == StripTrailingZeros(IF p.hasDot THEN p.fraction ELSE <<"0">>)
          kept     == PadEnd0(Slice(fraction, 1, decimals), decimals)
          roundUp  == Len(fraction) > decimals /\ DigitVal(fraction[decimals + 1]) >= 5
          mag      == StrToNat(p.integer) * Pow10(decimals) + StrToNat(kept)
                        + (IF roundUp THEN 1 ELSE 0)
      IN  [ok |-> TRUE, wei |-> IF p.negative THEN 0 - mag ELSE mag]

\* formatUnits(value, decimals): the decimal string of value / 10^decimals
\* with the trailing zeros of the fraction removed
formatUnits(value, decimals) ==
    LET negative == value < 0
        display  == PadStart0(NatToStr(IF negative THEN 0 - value ELSE value), decimals)
        integer  == Slice(display, 1, Len(display) - decimals)
        fraction == StripTrailingZeros(Slice(display, Len(display) - decimals + 1, Len(display)))
    IN  (IF negative THEN <<"-">> ELSE <<>>)
          \o (IF integer = <<>> THEN <<"0">> ELSE integer)
          \o (IF fraction = <<>> THEN <<>> ELSE <<".">> \o fraction)

\* a / b on bigints: the quotient truncated toward zero
BigIntDiv(a, b) == IF a >= 0 THEN a \div b ELSE 0 - ((0 - a) \div b)


\* the white space String.prototype.trim() and Number() strip (of the
\* characters the inputs are written with)
WhiteSpace == {" ", "\t", "\n"}

\* s.trimStart()
RECURSIVE trimStart(_)
trimStart(s) ==
    IF Len(s) > 0 /\ s[1] \in WhiteSpace THEN trimStart(Tail(s)) ELSE s

\* s.trimEnd()
RECURSIVE trimEnd(_)
trimEnd(s) ==
    IF Len(s) > 0 /\ s[Len(s)] \in WhiteSpace
    THEN trimEnd(Slice(s, 1, Len(s) - 1))
    ELSE s

\* s.trim()
trim(s) == trimEnd(trimStart(s))

\* position of the first "e" or "E" of s, 0 when there is none
ExpPos(s) ==
    IF \E i \in 1..Len(s) : s[i] \in {"e", "E"}
    THEN CHOOSE i \in 1..Len(s) :
            s[i] \in {"e", "E"} /\ \A j \in 1..(i - 1) : s[j] \notin {"e", "E"}
    ELSE 0

NotANumber == [kind |-> "NaN", negative |-> FALSE, digits |-> <<>>, scale |-> 0]

\* Number(s) of a string, by the StringNumericLiteral grammar: white space
\* is stripped, the empty string is 0, then an optional sign and either
\* "Infinity" or a decimal literal (digits with an optional "." and at least
\* one digit) with an optional exponent; anything else is NaN.  A finite
\* value is digits * 10^scale.  (Hexadecimal, octal and binary literals, and
\* literals beyond the precision or range of a double, are not among the
\* inputs.)
JsNumber(s) ==
    LET t        == trim(s)
        signed   == Len(t) > 0 /\ t[1] \in {"+", "-"}
        negative == Len(t) > 0 /\ t[1] = "-"
        body     == IF signed THEN Tail(t) ELSE t
        e        == ExpPos(body)
        literal  == IF e = 0 THEN body ELSE Slice(body, 1, e - 1)
        expPart  == IF e = 0 THEN <<>> ELSE Slice(body, e + 1, Len(body))
        expNeg   == Len(expPart) > 0 /\ expPart[1] = "-"
        expDigs  == IF Len(expPart) > 0 /\ expPart[1] \in {"+", "-"}
                    THEN Tail(expPart) ELSE expPart
        dot      == DotPos(literal)
        integer  == IF dot = 0 THEN literal ELSE Slice(literal, 1, dot - 1)
        fraction == IF dot = 0 THEN <<>> ELSE Slice(literal, dot + 1, Len(literal))
        exponent == IF expNeg THEN 0 - StrToNat(expDigs) ELSE StrToNat(expDigs)
    IN  IF t = <<>>
        THEN [kind |-> "finite", negative |-> FALSE, digits |-> <<"0">>, scale |-> 0]
        ELSE IF body = <<"I", "n", "f", "i", "n", "i", "t", "y">>
        THEN [kind |-> "Infinity", negative |-> negative, digits |-> <<>>, scale |-> 0]
        ELSE IF /\ AllDigits(integer) /\ AllDigits(fraction)
                /\ Len(integer) + Len(fraction) > 0
                /\ (e # 0 => Len(expDigs) > 0 /\ AllDigits(expDigs))
        THEN [kind |-> "finite", negative |-> negative,
              digits |-> integer \o fraction,
              scale |-> exponent - Len(fraction)]
        ELSE NotANumber

\* Number.isFinite(Number(s)) and Number(s) >= n, for a natural n
JsNumberAtLeast(s, n) ==
    LET v == JsNumber(s)
    IN  /\ v.kind = "finite"
        /\ IF v.negative THEN n = 0 /\ StrToNat(v.digits) = 0
           ELSE IF v.scale >= 0
                THEN StrToNat(v.digits) * Pow10(v.scale) >= n
                ELSE StrToNat(v.digits) >= n * Pow10(0 - v.scale)

(***************************************************************************)
(* Inputs: what callers pass and what the collaborators answer.            *)
(***************************************************************************)
MkAmount(neg, whole, frac) ==
    (IF neg THEN <<"-">> ELSE <<>>) \o NatToStr(whole)
      \o (IF frac = <<>> THEN <<>> ELSE <<".">> \o frac)

\* fractions: none, one digit, and seven digits that round down and up at
\* the sixth decimal
Fractions ==
    { <<>>, <<"5">>,
      <<"0", "0", "0", "0", "0", "0", "4">>,
      <<"0", "0", "0", "0", "0", "0", "5">> }

Wholes == {0, 1, MaxWhole}

\* usdcIn and tokensIn as callers pass them, the empty and a non-numeric one
\* included
AmountStrings ==
    { MkAmount(neg, w, f) : neg \in BOOLEAN, w \in Wholes, f \in Fractions }
      \cup { <<>>, <<"x">> }

\* feePaid of a quote: missing or empty, zero, 1.5, a seventh decimal,
\* non-numeric
FeeStrings ==
    { <<>>, <<"0">>, <<"1", ".", "5">>,
      <<"0", ".", "0", "0", "0", "0", "0", "0", "5">>, <<"x">> }

SeedStrings ==
    { <<"1", "9", ".", "9">>, <<"2", "0">>, <<"2", "5", ".", "5">>, <<"x">> }

Markets == {"0xMarketA", "0xMarketB"}

Tokens == {"0xToken"}

SlippageValues == {100, 500}

\* the intents the backend may answer with: {to, data, value}; chainId and
\* description are not read by executeIntent beyond logging
NoIntent == [to |-> "", data |-> "", value |-> <<>>]

BackendIntents ==
    { [to |-> "0xUSDC",    data |-> "0x095ea7b3", value |-> <<>>],
      [to |-> "0xFactory", data |-> "0xc0ffee",   value |-> <<"7">>] }

\* LaunchParams: the trimmed lengths of name and description, whether the
\* trimmed symbol matches /^[A-Za-z0-9]{2,12}$/, the seed amount string, the
\* kind of imageFile, whether the image passes normalisation, and whether
\* every given social URL parses
LaunchInputs ==
    { p \in [ nameLen : {1, 2}, symbolOk : BOOLEAN, descLen : {4, 5},
              seedAmount : SeedStrings,
              image : {"none", "inline", "path"}, imageOk : BOOLEAN,
              socialsOk : BOOLEAN ] :
        p.image = "none" => ~p.imageOk }

NoArgs ==
    [ market |-> "", token |-> "", amount |-> <<>>, slippageBps |-> 0,
      nameLen |-> 0, symbolOk |-> FALSE, descLen |-> 0,
      image |-> "none", imageOk |-> FALSE, socialsOk |-> FALSE,
      cli |-> FALSE, dryRun |-> FALSE ]

LaunchArgs(p, cli, dryRun) ==
    [ NoArgs EXCEPT !.cli = cli, !.dryRun = dryRun,
                    !.amount = p.seedAmount, !.nameLen = p.nameLen,
                    !.symbolOk = p.symbolOk, !.descLen = p.descLen,
                    !.image = p.image, !.imageOk = p.imageOk,
                    !.socialsOk = p.socialsOk ]

\* a request to the backend: the endpoint, the address in its path, and the
\* fields of its body or query ("" , <<>> and 0 where the endpoint has none)
Req(endpoint, addr, amount, spender, slippageBps) ==
    [ endpoint |-> endpoint, addr |-> addr, amount |-> amount,
      spender |-> spender, slippageBps |-> slippageBps ]

NoLocal ==
    [ quote |-> "none", feePaid |-> <<>>, approveAmount |-> <<>>,
      imageUrl |-> "" ]

NoResult == [hash |-> 0, error |-> ""]

(***************************************************************************)
(* State.                                                                  *)
(***************************************************************************)
VARIABLES
    hasSigner,  \* this.client and this.account are set (config.privateKey)
    op,         \* op[c]: the method invocation c runs, "idle" when none
    pc,         \* pc[c]: the await invocation c is suspended at
    args,       \* args[c]: the arguments of the invocation
    local,      \* local[c]: quote outcome, approveAmount, imageUrl
    intents,    \* intents[c]: approveIntent and the action intent received
    requests,   \* requests[c]: backend requests issued, in order
    txs,        \* txs[c]: transactions the signer broadcast, in order
    result      \* result[c]: the hash returned or the error thrown

vars == <<hasSigner, op, pc, args, local, intents, requests, txs, result>>

Init ==
    /\ hasSigner \in BOOLEAN
    /\ op = [c \in Calls |-> "idle"]
    /\ pc = [c \in Calls |-> "idle"]
    /\ args = [c \in Calls |-> NoArgs]
    /\ local = [c \in Calls |-> NoLocal]
    /\ intents = [c \in Calls |-> [approve |-> NoIntent, action |-> NoIntent]]
    /\ requests = [c \in Calls |-> <<>>]
    /\ txs = [c \in Calls |-> <<>>]
    /\ result = [c \in Calls |-> NoResult]


(***************************************************************************)
(* Steps shared by the actions.                                            *)
(***************************************************************************)
Goto(c, label) == pc' = [pc EXCEPT ![c] = label]

\* the invocation rejects with an error
Throw(c, err) ==
    /\ pc' = [pc EXCEPT ![c] = "failed"]
    /\ result' = [result EXCEPT ![c] = [hash |-> 0, error |-> err]]

\* this.request(path, options): the fetch is issued
Issue(c, r) == requests' = [requests EXCEPT ![c] = Append(@, r)]

\* the caller owns one signer and does not overlap write actions (spec 5)
MayStart(c) == \A d \in Calls : pc[d] = "idle"

(***************************************************************************)
(* executeIntent.                                                          *)
(***************************************************************************)
\* faulty variant: the signer check is dropped
SignerMissingNever == FALSE

\* !this.client || !this.account
SignerMissing == ~hasSigner

\* faulty variant: the value of the intent is not forwarded
TxRequestNoValue(intent) ==
    [to |-> intent.to, data |-> intent.data, value |-> 0]

\* the argument of sendTransaction: to and data of the intent, and
\* BigInt(intent.value || '0')
TxRequest(intent) ==
    [ to    |-> intent.to,
      data  |-> intent.data,
      value |-> StrToNat(IF intent.value = <<>> THEN <<"0">> ELSE intent.value) ]

\* executeIntent up to its first await: the signer check, then sendTransaction
executeIntent(c, which) ==
    IF SignerMissing
    THEN Throw(c, "SignerRequired")
    ELSE /\ Goto(c, IF which = "approve" THEN "await_send_approve"
                                         ELSE "await_send_action")
         /\ UNCHANGED result

\* the request for the intent of the action, issued by buy() and sell() once
\* the approval has been executed
ActionRequest(c) ==
    IF op[c] = "buy"
    THEN Req("intent/markets/buy", args[c].market, args[c].amount, "",
             args[c].slippageBps)
    ELSE Req("intent/markets/sell", args[c].market, args[c].amount, "",
             args[c].slippageBps)

\* what the caller of executeIntent does with the hash it returns
AfterExecute(c, which, hash) ==
    IF which = "approve"
    THEN IF op[c] = "launchToken"
         THEN executeIntent(c, "action") /\ UNCHANGED requests
         ELSE Issue(c, ActionRequest(c)) /\ Goto(c, "await_action_intent")
                /\ UNCHANGED result
    ELSE /\ Goto(c, "done")
         /\ result' = [result EXCEPT ![c] = [hash |-> hash, error |-> ""]]
         /\ UNCHANGED requests

\* faulty variant: executeIntent returns the hash without awaiting the receipt
SendReturnNoWait(c, ok) ==
    /\ pc[c] \in {"await_send_approve", "await_send_action"}
    /\ LET which == IF pc[c] = "await_send_approve" THEN "approve" ELSE "action"
           hash  == Len(txs[c]) + 1
           tx    == TxRequest(intents[c][which])
       IN  IF ok
           THEN /\ txs' = [txs EXCEPT ![c] = Append(@,
                              [ to |-> tx.to, data |-> tx.data, value |-> tx.value,
                                hash |-> hash, confirmed |-> FALSE ])]
                /\ AfterExecute(c, which, hash)
           ELSE Throw(c, "Rpc") /\ UNCHANGED <<txs, requests>>
    /\ UNCHANGED <<hasSigner, op, args, local, intents>>

\* c has submitted its approval and its action is not confirmed yet
BetweenApprovalAndAction(c) ==
    /\ op[c] \in {"buy", "sell", "launchToken"}
    /\ txs[c] # <<>>
    /\ pc[c] \in {"await_receipt_approve", "await_action_intent",
                  "await_send_action", "await_receipt_action"}

\* faulty variant: a transaction is held back while another invocation is
\* between its approval and its action
SendReturnSerialized(c, ok) ==
    /\ pc[c] \in {"await_send_approve", "await_send_action"}
    /\ \A d \in Calls \ {c} : ~BetweenApprovalAndAction(d)
    /\ LET which == IF pc[c] = "await_send_approve" THEN "approve" ELSE "action"
           hash  == Len(txs[c]) + 1
           tx    == TxRequest(intents[c][which])
       IN  IF ok
           THEN /\ txs' = [txs EXCEPT ![c] = Append(@,
                              [ to |-> tx.to, data |-> tx.data, value |-> tx.value,
                                hash |-> hash, confirmed |-> FALSE ])]
                /\ Goto(c, IF which = "approve" THEN "await_receipt_approve"
                                                ELSE "await_receipt_action")
                /\ UNCHANGED <<result, requests>>
           ELSE Throw(c, "Rpc") /\ UNCHANGED <<txs, requests>>
    /\ UNCHANGED <<hasSigner, op, args, local, intents>>

\* sendTransaction returns a hash (the transaction is broadcast) or throws
SendReturn(c, ok) ==
    /\ pc[c] \in {"await_send_approve", "await_send_action"}
    /\ LET which == IF pc[c] = "await_send_approve" THEN "approve" ELSE "action"
           hash  == Len(txs[c]) + 1
           tx    == TxRequest(intents[c][which])
       IN  IF ok
           THEN /\ txs' = [txs EXCEPT ![c] = Append(@,
                              [ to |-> tx.to, data |-> tx.data, value |-> tx.value,
                                hash |-> hash, confirmed |-> FALSE ])]
                /\ Goto(c, IF which = "approve" THEN "await_receipt_approve"
                                                ELSE "await_receipt_action")
                /\ UNCHANGED <<result, requests>>
           ELSE Throw(c, "Rpc") /\ UNCHANGED <<txs, requests>>
    /\ UNCHANGED <<hasSigner, op, args, local, intents>>

\* faulty variant: a failed action is followed by a transaction that revokes
\* the approval
ReceiptReturnRevoke(c, ok) ==
    /\ pc[c] \in {"await_receipt_approve", "await_receipt_action"}
    /\ LET which == IF pc[c] = "await_receipt_approve" THEN "approve" ELSE "action"
           n     == Len(txs[c])
           tx    == TxRequest(intents[c].approve)
       IN  IF ok
           THEN /\ txs' = [txs EXCEPT ![c][n].confirmed = TRUE]
                /\ AfterExecute(c, which, txs[c][n].hash)
           ELSE /\ Throw(c, "Rpc")
                /\ txs' = [txs EXCEPT ![c] =
                             IF which = "action"
                             THEN Append(@, [ to |-> tx.to, data |-> tx.data,
                                              value |-> 0, hash |-> n + 1,
                                              confirmed |-> FALSE ])
                             ELSE @]
                /\ UNCHANGED requests
    /\ UNCHANGED <<hasSigner, op, args, local, intents>>

\* faulty variant: a transaction whose receipt fails is submitted again
ReceiptReturnResubmit(c, ok) ==
    /\ pc[c] \in {"await_receipt_approve", "await_receipt_action"}
    /\ LET which == IF pc[c] = "await_receipt_approve" THEN "approve" ELSE "action"
           n     == Len(txs[c])
       IN  IF ok
           THEN /\ txs' = [txs EXCEPT ![c][n].confirmed = TRUE]
                /\ AfterExecute(c, which, txs[c][n].hash)
           ELSE /\ Goto(c, IF which = "approve" THEN "await_send_approve"
                                                ELSE "await_send_action")
                /\ UNCHANGED <<txs, requests, result>>
    /\ UNCHANGED <<hasSigner, op, args, local, intents>>

\* waitForTransactionReceipt returns (the transaction is in a block; the
\* receipt itself is not read) or throws
ReceiptReturn(c, ok) ==
    /\ pc[c] \in {"await_receipt_approve", "await_receipt_action"}
    /\ LET which == IF pc[c] = "await_receipt_approve" THEN "approve" ELSE "action"
           n     == Len(txs[c])
       IN  IF ok
           THEN /\ txs' = [txs EXCEPT ![c][n].confirmed = TRUE]
                /\ AfterExecute(c, which, txs[c][n].hash)
           ELSE Throw(c, "Rpc") /\ UNCHANGED <<txs, requests>>
    /\ UNCHANGED <<hasSigner, op, args, local, intents>>


(***************************************************************************)
(* prepareLaunchToken and launchToken.                                     *)
(***************************************************************************)
validateLaunchParams(p) ==
    /\ ~(p.nameLen < 2 \/ p.nameLen > 64)
    /\ p.symbolOk
    /\ ~(p.descLen < 5 \/ p.descLen > 500)
    /\ JsNumberAtLeast(p.seedAmount, 20)

UploadRequest == Req("upload/image", "", <<>>, "", 0)

ApproveSeedRequest(seedAmount) ==
    Req("intent/factory/approve-seed", "", seedAmount, "", 0)

CreateRequest(seedAmount) ==
    Req("intent/tokens/create", "", seedAmount, "", 0)

\* normalizeImageInput once the bytes are at hand: the size cap, the format
\* sniff, the dimensions and the shape; then the upload is requested
NormalizeAndUpload(c, imageOk) ==
    IF imageOk
    THEN Issue(c, UploadRequest) /\ Goto(c, "await_upload") /\ UNCHANGED result
    ELSE Throw(c, "Image") /\ UNCHANGED requests

\* buildLaunchMetadata after the image: the social URLs are normalised, the
\* metadata URI is built, and prepareLaunchToken requests the approve-seed
\* intent
FinishMetadata(c, p) ==
    IF ~p.socialsOk
    THEN Throw(c, "InvalidUrl") /\ UNCHANGED requests
    ELSE /\ Issue(c, ApproveSeedRequest(p.seedAmount))
         /\ Goto(c, "await_approve_intent")
         /\ UNCHANGED result

\* faulty variant: the image is handled before the parameters are validated
LaunchBeginImageFirst(c, method, p, cli, dryRun) ==
    /\ op' = [op EXCEPT ![c] = method]
    /\ args' = [args EXCEPT ![c] = LaunchArgs(p, cli, dryRun)]
    /\ IF p.image = "path"
       THEN Goto(c, "await_readFile") /\ UNCHANGED <<requests, result>>
       ELSE IF p.image = "inline" THEN NormalizeAndUpload(c, p.imageOk)
       ELSE IF ~validateLaunchParams(p)
       THEN Throw(c, "Validation") /\ UNCHANGED requests
       ELSE FinishMetadata(c, p)
    /\ UNCHANGED <<hasSigner, local, intents, txs>>

\* the method to its first await
LaunchBegin(c, method, p, cli, dryRun) ==
    /\ op' = [op EXCEPT ![c] = method]
    /\ args' = [args EXCEPT ![c] = LaunchArgs(p, cli, dryRun)]
    /\ IF ~validateLaunchParams(p)
       THEN Throw(c, "Validation") /\ UNCHANGED requests
       ELSE IF p.image = "none" THEN FinishMetadata(c, p)
       ELSE IF p.image = "inline" THEN NormalizeAndUpload(c, p.imageOk)
       ELSE Goto(c, "await_readFile") /\ UNCHANGED <<requests, result>>
    /\ UNCHANGED <<hasSigner, local, intents, txs>>

\* sdk.prepareLaunchToken(params) and sdk.launchToken(params)
LaunchCall(c, method, p) ==
    /\ MayStart(c)
    /\ LaunchBegin(c, method, p, FALSE, FALSE)

\* faulty variant: the CLI ignores --dry-run
CliLaunchMethodAlwaysLaunch(dryRun) == "launchToken"

\* the method the CLI's launch command calls
CliLaunchMethod(dryRun) ==
    IF dryRun THEN "prepareLaunchToken" ELSE "launchToken"

\* `launch [--dry-run]` of the CLI: createSDK(global, !dryRun), then the call
CliLaunch(c, dryRun, p) ==
    /\ MayStart(c)
    /\ IF ~dryRun /\ ~hasSigner
       THEN /\ op' = [op EXCEPT ![c] = "cli"]
            /\ args' = [args EXCEPT ![c] = LaunchArgs(p, TRUE, dryRun)]
            /\ Throw(c, "MissingKey")
            /\ UNCHANGED <<hasSigner, local, intents, requests, txs>>
       ELSE LaunchBegin(c, CliLaunchMethod(dryRun), p, TRUE, dryRun)

\* readFile(imageFile) returns the bytes or throws
ReadFileReturn(c, ok) ==
    /\ pc[c] = "await_readFile"
    /\ IF ok
       THEN NormalizeAndUpload(c, args[c].imageOk)
       ELSE Throw(c, "ReadFile") /\ UNCHANGED requests
    /\ UNCHANGED <<hasSigner, op, args, local, intents, txs>>

\* the answer to POST /upload/image
UploadReturn(c, ok) ==
    /\ pc[c] = "await_upload"
    /\ IF ok
       THEN /\ local' = [local EXCEPT ![c].imageUrl = "https://cdn/image"]
            /\ FinishMetadata(c, [socialsOk |-> args[c].socialsOk,
                                  seedAmount |-> args[c].amount])
       ELSE Throw(c, "Api") /\ UNCHANGED <<local, requests>>
    /\ UNCHANGED <<hasSigner, op, args, intents, txs>>

(***************************************************************************)
(* buy and sell.                                                           *)
(***************************************************************************)
\* faulty variant: the quoted fee is not added
BuyApproveAmountNoFee(usdcIn, quoteOk, feePaid) ==
    LET usdcInWei  == parseUnits(usdcIn, UsdcDecimals).wei
        cushionWei == BigIntDiv(usdcInWei, 10)
    IN  formatUnits(usdcInWei + (IF cushionWei > 0 THEN cushionWei ELSE 1),
                    UsdcDecimals)

\* faulty variant: the cushion is added only when the quote is at hand
BuyApproveAmountCushionInTry(usdcIn, quoteOk, feePaid) ==
    LET usdcInWei  == parseUnits(usdcIn, UsdcDecimals).wei
        fee        == parseUnits(IF feePaid = <<>> THEN <<"0">> ELSE feePaid,
                                 UsdcDecimals)
        cushionWei == BigIntDiv(usdcInWei, 10)
    IN  formatUnits(IF quoteOk /\ fee.ok
                    THEN usdcInWei + fee.wei
                           + (IF cushionWei > 0 THEN cushionWei ELSE 1)
                    ELSE usdcInWei, UsdcDecimals)

\* faulty variant: a cushion of a tenth with no minimum of one unit
BuyApproveAmountNoMinimum(usdcIn, quoteOk, feePaid) ==
    LET usdcInWei  == parseUnits(usdcIn, UsdcDecimals).wei
        fee        == parseUnits(IF feePaid = <<>> THEN <<"0">> ELSE feePaid,
                                 UsdcDecimals)
        base       == IF quoteOk /\ fee.ok THEN usdcInWei + fee.wei ELSE usdcInWei
    IN  formatUnits(base + BigIntDiv(usdcInWei, 10), UsdcDecimals)

\* approveAmount of buy(): usdcIn plus the quoted fee when the quote is at
\* hand and its fee parses, plus a cushion of a tenth, at least one unit
BuyApproveAmount(usdcIn, quoteOk, feePaid) ==
    LET usdcInWei  == parseUnits(usdcIn, UsdcDecimals).wei
        fee        == parseUnits(IF feePaid = <<>> THEN <<"0">> ELSE feePaid,
                                 UsdcDecimals)
        base       == IF quoteOk /\ fee.ok THEN usdcInWei + fee.wei ELSE usdcInWei
        cushionWei == BigIntDiv(usdcInWei, 10)
        approveWei == base + (IF cushionWei > 0 THEN cushionWei ELSE 1)
    IN  formatUnits(approveWei, UsdcDecimals)

\* buy(marketAddress, usdcIn, slippageBps) to its first await
BuyBegin(c, market, usdcIn, slippageBps) ==
    /\ op' = [op EXCEPT ![c] = "buy"]
    /\ args' = [args EXCEPT ![c] = [NoArgs EXCEPT !.market = market,
                   !.amount = usdcIn, !.slippageBps = slippageBps]]
    /\ IF ~parseUnits(usdcIn, UsdcDecimals).ok
       THEN Throw(c, "InvalidDecimal") /\ UNCHANGED requests
       ELSE /\ Issue(c, Req("quote/buy", market, usdcIn, "", 0))
            /\ Goto(c, "await_quote")
            /\ UNCHANGED result
    /\ UNCHANGED <<hasSigner, local, intents, txs>>

\* sdk.buy(marketAddress, usdcIn, slippageBps)
BuyCall(c, market, usdcIn, slippageBps) ==
    /\ MayStart(c)
    /\ BuyBegin(c, market, usdcIn, slippageBps)

\* getQuoteBuy returns a quote or throws; the approve intent is requested
QuoteReturn(c, ok, feePaid) ==
    /\ pc[c] = "await_quote"
    /\ LET approveAmount == BuyApproveAmount(args[c].amount, ok, feePaid)
       IN  /\ local' = [local EXCEPT ![c].quote = IF ok THEN "ok" ELSE "failed",
                                     ![c].feePaid = feePaid,
                                     ![c].approveAmount = approveAmount]
           /\ Issue(c, Req("intent/markets/approve", args[c].market,
                           approveAmount, "", 0))
    /\ Goto(c, "await_approve_intent")
    /\ UNCHANGED <<hasSigner, op, args, intents, txs, result>>

\* faulty variant: token and market change places
SellApproveRequestSwapped(marketAddress, tokensIn, tokenAddress) ==
    Req("intent/tokens/approve", marketAddress, tokensIn, tokenAddress, 0)

\* the approve request of sell()
SellApproveRequest(marketAddress, tokensIn, tokenAddress) ==
    Req("intent/tokens/approve", tokenAddress, tokensIn, marketAddress, 0)

\* sell(marketAddress, tokensIn, tokenAddress, slippageBps) to its first
\* await
SellBegin(c, market, tokensIn, token, slippageBps) ==
    /\ op' = [op EXCEPT ![c] = "sell"]
    /\ args' = [args EXCEPT ![c] = [NoArgs EXCEPT !.market = market,
                   !.token = token, !.amount = tokensIn,
                   !.slippageBps = slippageBps]]
    /\ Issue(c, SellApproveRequest(market, tokensIn, token))
    /\ Goto(c, "await_approve_intent")
    /\ UNCHANGED <<hasSigner, local, intents, txs, result>>

\* sdk.sell(marketAddress, tokensIn, tokenAddress, slippageBps)
SellCall(c, market, tokensIn, token, slippageBps) ==
    /\ MayStart(c)
    /\ SellBegin(c, market, tokensIn, token, slippageBps)

(***************************************************************************)
(* The answers to the intent requests.                                     *)
(***************************************************************************)
\* faulty variant: launchToken executes the approval as soon as its intent
\* arrives, before the create intent is requested
ApproveIntentReturnEager(c, ok, intent) ==
    /\ pc[c] = "await_approve_intent"
    /\ IF ok
       THEN /\ intents' = [intents EXCEPT ![c].approve = intent]
            /\ IF op[c] = "prepareLaunchToken"
               THEN /\ Issue(c, CreateRequest(args[c].amount))
                    /\ Goto(c, "await_action_intent")
                    /\ UNCHANGED result
               ELSE executeIntent(c, "approve") /\ UNCHANGED requests
       ELSE Throw(c, "Api") /\ UNCHANGED <<intents, requests>>
    /\ UNCHANGED <<hasSigner, op, args, local, txs>>

\* the approve intent arrives (or the request throws)
ApproveIntentReturn(c, ok, intent) ==
    /\ pc[c] = "await_approve_intent"
    /\ IF ok
       THEN /\ intents' = [intents EXCEPT ![c].approve = intent]
            /\ IF op[c] \in {"launchToken", "prepareLaunchToken"}
               THEN /\ Issue(c, CreateRequest(args[c].amount))
                    /\ Goto(c, "await_action_intent")
                    /\ UNCHANGED result
               ELSE executeIntent(c, "approve") /\ UNCHANGED requests
       ELSE Throw(c, "Api") /\ UNCHANGED <<intents, requests>>
    /\ UNCHANGED <<hasSigner, op, args, local, txs>>

\* the create, buy or sell intent arrives (or the request throws)
ActionIntentReturn(c, ok, intent) ==
    /\ pc[c] = "await_action_intent"
    /\ IF ok
       THEN /\ intents' = [intents EXCEPT ![c].action = intent]
            /\ IF op[c] = "prepareLaunchToken"
               THEN Goto(c, "done") /\ UNCHANGED result
               ELSE IF op[c] = "launchToken"
               THEN executeIntent(c, "approve")
               ELSE executeIntent(c, "action")
       ELSE Throw(c, "Api") /\ UNCHANGED intents
    /\ UNCHANGED <<hasSigner, op, args, local, requests, txs>>

\* the caller has the result or the error; the invocation is over
Return(c) ==
    /\ pc[c] \in {"done", "failed"}
    /\ op' = [op EXCEPT ![c] = "idle"]
    /\ pc' = [pc EXCEPT ![c] = "idle"]
    /\ args' = [args EXCEPT ![c] = NoArgs]
    /\ local' = [local EXCEPT ![c] = NoLocal]
    /\ intents' = [intents EXCEPT ![c] = [approve |-> NoIntent, action |-> NoIntent]]
    /\ requests' = [requests EXCEPT ![c] = <<>>]
    /\ txs' = [txs EXCEPT ![c] = <<>>]
    /\ result' = [result EXCEPT ![c] = NoResult]
    /\ UNCHANGED hasSigner

Next ==
    \/ \E c \in Calls, m \in {"prepareLaunchToken", "launchToken"}, p \in LaunchInputs :
          LaunchCall(c, m, p)
    \/ \E c \in Calls, dryRun \in BOOLEAN, p \in LaunchInputs : CliLaunch(c, dryRun, p)
    \/ \E c \in Calls, ok \in BOOLEAN : ReadFileReturn(c, ok)
    \/ \E c \in Calls, ok \in BOOLEAN : UploadReturn(c, ok)
    \/ \E c \in Calls, m \in Markets, a \in AmountStrings, s \in SlippageValues :
          BuyCall(c, m, a, s)
    \/ \E c \in Calls, f \in FeeStrings : QuoteReturn(c, TRUE, f)
    \/ \E c \in Calls : QuoteReturn(c, FALSE, <<>>)
    \/ \E c \in Calls, m \in Markets, a \in AmountStrings, t \in Tokens,
          s \in SlippageValues : SellCall(c, m, a, t, s)
    \/ \E c \in Calls, i \in BackendIntents : ApproveIntentReturn(c, TRUE, i)
    \/ \E c \in Calls : ApproveIntentReturn(c, FALSE, NoIntent)
    \/ \E c \in Calls, i \in BackendIntents : ActionIntentReturn(c, TRUE, i)
    \/ \E c \in Calls : ActionIntentReturn(c, FALSE, NoIntent)
    \/ \E c \in Calls, ok \in BOOLEAN : SendReturn(c, ok)
    \/ \E c \in Calls, ok \in BOOLEAN : ReceiptReturn(c, ok)
    \/ \E c \in Calls : Return(c)

Spec == Init /\ [][Next]_vars

\* one launch, one purchase and one sale, for invocations that overlap
OverlapLaunch ==
    [ nameLen |-> 2, symbolOk |-> TRUE, descLen |-> 5, seedAmount |-> <<"2", "0">>,
      image |-> "none", imageOk |-> FALSE, socialsOk |-> TRUE ]

OverlapAmount == <<"1", "0">>

\* a collaborator of c answers: the file system, the backend, the RPC node
CollaboratorReturn(c) ==
    \/ \E ok \in BOOLEAN : ReadFileReturn(c, ok)
    \/ \E ok \in BOOLEAN : UploadReturn(c, ok)
    \/ \E ok \in BOOLEAN : QuoteReturn(c, ok, <<"1", ".", "5">>)
    \/ \E i \in BackendIntents : ApproveIntentReturn(c, TRUE, i)
    \/ ApproveIntentReturn(c, FALSE, NoIntent)
    \/ \E i \in BackendIntents : ActionIntentReturn(c, TRUE, i)
    \/ ActionIntentReturn(c, FALSE, NoIntent)
    \/ \E ok \in BOOLEAN : SendReturn(c, ok)
    \/ \E ok \in BOOLEAN : ReceiptReturn(c, ok)

(***************************************************************************)
(* The write actions and the dry run with collaborators that answer every  *)
(* call in the end, by a result or by an error; the SDK sets no timeout.   *)
(***************************************************************************)
LiveNext ==
    \/ \E c \in Calls, m \in {"prepareLaunchToken", "launchToken"},
          image \in {"none", "inline", "path"} :
          LaunchCall(c, m, [OverlapLaunch EXCEPT !.image = image,
                                                 !.imageOk = image # "none"])
    \/ \E c \in Calls : BuyCall(c, "0xMarketA", OverlapAmount, 100)
    \/ \E c \in Calls : SellCall(c, "0xMarketA", OverlapAmount, "0xToken", 100)
    \/ \E c \in Calls : CollaboratorReturn(c)
    \/ \E c \in Calls : Return(c)

\* where an invocation waits for a collaborator
AwaitLabels ==
    { "await_readFile", "await_upload", "await_quote", "await_approve_intent",
      "await_action_intent", "await_send_approve", "await_send_action",
      "await_receipt_approve", "await_receipt_action" }

\* the call c waits for is answered and c goes on: the steps of
\* CollaboratorReturn(c), told by where c stands before and after
Answered(c) ==
    /\ pc[c] \in AwaitLabels
    /\ \E label \in (AwaitLabels \cup {"done", "failed"}) \ {pc[c]} :
          pc' = [pc EXCEPT ![c] = label]

LiveSpec == Init /\ [][LiveNext]_vars /\ \A c \in Calls : WF_pc(Answered(c))

(***************************************************************************)
(* The write actions when the caller lets them overlap: nothing in the SDK *)
(* keeps an invocation from starting or from going on while another one is *)
(* under way.                                                              *)
(***************************************************************************)
OverlapNext ==
    \/ \E c \in Calls :
          pc[c] = "idle" /\ LaunchBegin(c, "launchToken", OverlapLaunch, FALSE, FALSE)
    \/ \E c \in Calls :
          pc[c] = "idle" /\ BuyBegin(c, "0xMarketA", OverlapAmount, 100)
    \/ \E c \in Calls :
          pc[c] = "idle" /\ SellBegin(c, "0xMarketA", OverlapAmount, "0xToken", 100)
    \/ \E c \in Calls, ok \in BOOLEAN : QuoteReturn(c, ok, <<"1", ".", "5">>)
    \/ \E c \in Calls, i \in BackendIntents : ApproveIntentReturn(c, TRUE, i)
    \/ \E c \in Calls : ApproveIntentReturn(c, FALSE, NoIntent)
    \/ \E c \in Calls, i \in BackendIntents : ActionIntentReturn(c, TRUE, i)
    \/ \E c \in Calls : ActionIntentReturn(c, FALSE, NoIntent)
    \/ \E c \in Calls, ok \in BOOLEAN : SendReturn(c, ok)
    \/ \E c \in Calls, ok \in BOOLEAN : ReceiptReturn(c, ok)
    \/ \E c \in Calls : Return(c)

OverlapSpec == Init /\ [][OverlapNext]_vars


(***************************************************************************)
(* The command line: what a run of `moltlaunch <command>` writes.  A line  *)
(* written is a JSON object with its success field, or plain text.         *)
(***************************************************************************)
JsonLine(success) == [json |-> TRUE, success |-> success]

TextLine == [json |-> FALSE, success |-> FALSE]

\* what a run has written to stdout and stderr, and its exit code (-1 while
\* it runs)
NoOutput == [stdout |-> <<>>, stderr |-> <<>>, exit |-> -1]

\* the commands, `launch --dry-run` apart from `launch`
CliCommands ==
    {"launch", "launch-dry-run", "tokens", "buy", "sell", "quote-buy", "quote-sell"}

\* the commands that call createSDK(global, true)
RequireSigner(command) == command \in {"launch", "buy", "sell"}

\* --network and MOLTMOON_NETWORK: not set, base, or another name
NetworkNames == {"", "base", "solana"}

\* how many lines executeIntent has logged when the SDK call of a command
\* returns, and when it throws: three for each transaction confirmed
LogLinesOf(command, ok) ==
    IF ~RequireSigner(command) THEN {0}
    ELSE IF ok THEN {6}
    ELSE 0..5

\* fail(message, asJson) after `stdout` has been written: one line on stderr,
\* then process.exit(1)
fail(c, stdout, asJson) ==
    /\ pc' = [pc EXCEPT ![c] = "failed"]
    /\ result' = [result EXCEPT ![c] =
                    [ stdout |-> stdout,
                      stderr |-> << IF asJson THEN JsonLine(FALSE) ELSE TextLine >>,
                      exit   |-> 1 ]]

\* resolveNetwork(options) calls fail
UnsupportedNetwork(network, envNetwork) ==
    \/ network # "" /\ network # "base"
    \/ envNetwork # "" /\ envNetwork # "base"

\* a command is run: createSDK(global, requireSigner), then the call of the
\* SDK method is awaited
CliRun(c, command, json, network, envNetwork) ==
    /\ MayStart(c)
    /\ op' = [op EXCEPT ![c] = "cli"]
    /\ args' = [args EXCEPT ![c] =
                  [ command |-> command, json |-> json, network |-> network,
                    envNetwork |-> envNetwork ]]
    /\ IF UnsupportedNetwork(network, envNetwork)
       THEN fail(c, <<>>, FALSE)
       ELSE IF RequireSigner(command) /\ ~hasSigner
       THEN fail(c, <<>>, FALSE)
       ELSE /\ Goto(c, "await_sdk")
            /\ result' = [result EXCEPT ![c] = NoOutput]
    /\ UNCHANGED <<hasSigner, local, intents, requests, txs>>

\* the SDK method returns or throws, after executeIntent has logged `logs`
\* lines: the action prints the result, or its catch calls
\* fail(error.message, options.json)
CliSdkReturn(c, ok, logs) ==
    /\ pc[c] = "await_sdk"
    /\ logs \in LogLinesOf(args[c].command, ok)
    /\ LET logged == [k \in 1..logs |-> TextLine]
       IN  IF ok
           THEN /\ Goto(c, "done")
                /\ result' = [result EXCEPT ![c] =
                                [ stdout |-> Append(logged,
                                               IF args[c].json THEN JsonLine(TRUE)
                                               ELSE TextLine),
                                  stderr |-> <<>>,
                                  exit   |-> 0 ]]
           ELSE fail(c, logged, args[c].json)
    /\ UNCHANGED <<hasSigner, op, args, local, intents, requests, txs>>

CliNext ==
    \/ \E c \in Calls, command \in CliCommands, json \in BOOLEAN,
          network \in NetworkNames, envNetwork \in NetworkNames :
          CliRun(c, command, json, network, envNetwork)
    \/ \E c \in Calls, ok \in BOOLEAN, logs \in 0..6 : CliSdkReturn(c, ok, logs)
    \/ \E c \in Calls : Return(c)

CliSpec == Init /\ [][CliNext]_vars

(***************************************************************************)
(* validateLaunchParams on the strings themselves.                         *)
(***************************************************************************)
\* [A-Za-z0-9]
Alphanumerics ==
    { "A", "B", "C", "D", "E", "F", "G", "H", "I", "J", "K", "L", "M",
      "N", "O", "P", "Q", "R", "S", "T", "U", "V", "W", "X", "Y", "Z",
      "a", "b", "c", "d", "e", "f", "g", "h", "i", "j", "k", "l", "m",
      "n", "o", "p", "q", "r", "s", "t", "u", "v", "w", "x", "y", "z",
      "0", "1", "2", "3", "4", "5", "6", "7", "8", "9" }

\* /^[A-Za-z0-9]{2,12}$/.test(symbol)
SymbolPattern(symbol) ==
    /\ Len(symbol) >= 2
    /\ Len(symbol) <= 12
    /\ \A i \in 1..Len(symbol) : symbol[i] \in Alphanumerics

\* faulty variant: the lengths are those of the strings as given, untrimmed
validateLaunchParamsNoTrim(params) ==
    IF Len(params.name) < 2 \/ Len(params.name) > 64
    THEN "Token name must be 2-64 characters."
    ELSE IF ~SymbolPattern(params.symbol)
    THEN "Token symbol must be 2-12 alphanumeric characters."
    ELSE IF Len(params.description) < 5 \/ Len(params.description) > 500
    THEN "Description must be 5-500 characters."
    ELSE IF ~JsNumberAtLeast(params.seedAmount, 20)
    THEN "Seed amount must be at least 20 USDC."
    ELSE ""

\* validateLaunchParams(params): the message of the error it throws, "" when
\* it returns
validateLaunchParamsThrows(params) ==
    LET name        == trim(params.name)
        symbol      == trim(params.symbol)
        description == trim(params.description)
    IN  IF Len(name) < 2 \/ Len(name) > 64
        THEN "Token name must be 2-64 characters."
        ELSE IF ~SymbolPattern(symbol)
        THEN "Token symbol must be 2-12 alphanumeric characters."
        ELSE IF Len(description) < 5 \/ Len(description) > 500
        THEN "Description must be 5-500 characters."
        ELSE IF ~JsNumberAtLeast(params.seedAmount, 20)
        THEN "Seed amount must be at least 20 USDC."
        ELSE ""

\* n times the character ch
Repeat(ch, n) == [i \in 1..n |-> ch]

NameInputs ==
    { <<"A">>, <<"A", "B">>, <<" ", "A", " ">>, <<" ", "A", "B", "\t">>,
      Repeat("n", 64), Repeat("n", 65), <<" ">> \o Repeat("n", 64) \o <<" ">> }

SymbolInputs ==
    { <<"T">>, <<"T", "K", "N", "1">>, <<" ", "t", "k", " ">>,
      <<"T", "-", "K">>, <<"T", " ", "K">>, Repeat("S", 12), Repeat("S", 13) }

DescriptionInputs ==
    { Repeat("d", 4), Repeat("d", 5), <<" ">> \o Repeat("d", 4) \o <<" ">>,
      Repeat("d", 500), Repeat("d", 501) }

\* seed amounts, each with its numeric value in hundredths (-1: not a finite
\* number)
SeedCases ==
    { << <<"2", "0">>, 2000 >>,
      << <<"1", "9", ".", "9">>, 1990 >>,
      << <<"1", "9", ".", "9", "9">>, 1999 >>,
      << <<"2", "0", ".", "0">>, 2000 >>,
      << <<" ", "2", "0", "\n">>, 2000 >>,
      << <<"2", "e", "1">>, 2000 >>,
      << <<"1", "9", "9", "E", "-", "1">>, 1990 >>,
      << <<"+", "2", "5", ".", "5">>, 2550 >>,
      << <<"-", "2", "0">>, -2000 >>,
      << <<>>, 0 >>,
      << <<"I", "n", "f", "i", "n", "i", "t", "y">>, -1 >>,
      << <<"2", "0", "u", "s", "d">>, -1 >>,
      << <<"x">>, -1 >> }

SeedInputs == { case[1] : case \in SeedCases }

ParamsInputs ==
    [ name : NameInputs, symbol : SymbolInputs,
      description : DescriptionInputs, seedAmount : SeedInputs ]

\* a direct call of validateLaunchParams(params)
ValidateLaunchParamsCall(c, params) ==
    /\ MayStart(c)
    /\ op' = [op EXCEPT ![c] = "validateLaunchParams"]
    /\ args' = [args EXCEPT ![c] = params]
    /\ LET message == validateLaunchParamsThrows(params)
       IN  IF message = ""
           THEN Goto(c, "done") /\ UNCHANGED result
           ELSE Throw(c, message)
    /\ UNCHANGED <<hasSigner, local, intents, requests, txs>>

(***************************************************************************)
(* Data URLs and base64.                                                   *)
(***************************************************************************)
UpperCaseLetters ==
    << "A", "B", "C", "D", "E", "F", "G", "H", "I", "J", "K", "L", "M",
       "N", "O", "P", "Q", "R", "S", "T", "U", "V", "W", "X", "Y",
       "Z" >>

LowerCaseLetters ==
    << "a", "b", "c", "d", "e", "f", "g", "h", "i", "j", "k", "l", "m",
       "n", "o", "p", "q", "r", "s", "t", "u", "v", "w", "x", "y",
       "z" >>

\* s.toLowerCase()
toLowerCase(s) ==
    [ i \in 1..Len(s) |->
        IF \E k \in 1..26 : UpperCaseLetters[k] = s[i]
        THEN LowerCaseLetters[CHOOSE k \in 1..26 : UpperCaseLetters[k] = s[i]]
        ELSE s[i] ]

\* the characters base64 writes the values 0..63 with
Base64Alphabet ==
    << "A", "B", "C", "D", "E", "F", "G", "H", "I", "J", "K", "L", "M",
       "N", "O", "P", "Q", "R", "S", "T", "U", "V", "W", "X", "Y", "Z",
       "a", "b", "c", "d", "e", "f", "g", "h", "i", "j", "k", "l", "m",
       "n", "o", "p", "q", "r", "s", "t", "u", "v", "w", "x", "y", "z",
       "0", "1", "2", "3", "4", "5", "6", "7", "8", "9", "+", "/" >>

Base64Value(ch) == (CHOOSE k \in 1..64 : Base64Alphabet[k] = ch) - 1

IsBase64Char(ch) == \E k \in 1..64 : Base64Alphabet[k] = ch

\* buffer.toString('base64'): four characters for every three bytes, "=" where
\* the last group has no second or third byte
Base64Encode(bytes) ==
    LET n == Len(bytes)
        Byte(k) == IF k <= n THEN bytes[k] ELSE 0
    IN  <<>> \o [ j \in 1..(4 * ((n + 2) \div 3)) |->
            LET g  == 3 * ((j - 1) \div 4)
                b1 == Byte(g + 1)
                b2 == Byte(g + 2)
                b3 == Byte(g + 3)
            IN  CASE (j - 1) % 4 = 0 -> Base64Alphabet[(b1 \div 4) + 1]
                  [] (j - 1) % 4 = 1 ->
                        Base64Alphabet[((b1 % 4) * 16 + b2 \div 16) + 1]
                  [] (j - 1) % 4 = 2 ->
                        IF g + 2 > n THEN "="
                        ELSE Base64Alphabet[((b2 % 16) * 4 + b3 \div 64) + 1]
                  [] OTHER ->
                        IF g + 3 > n THEN "="
                        ELSE Base64Alphabet[(b3 % 64) + 1] ]

\* the bytes of a run of base64 characters with no padding in it: three for
\* every four characters, one or two for a last group of two or three
Base64Bytes(chars) ==
    LET n == Len(chars)
        Value(k) == IF k <= n THEN Base64Value(chars[k]) ELSE 0
        rest == IF n % 4 = 2 THEN 1 ELSE IF n % 4 = 3 THEN 2 ELSE 0
    IN  <<>> \o [ i \in 1..(3 * (n \div 4) + rest) |->
            LET g == 4 * ((i - 1) \div 3)
            IN  CASE (i - 1) % 3 = 0 ->
                        Value(g + 1) * 4 + Value(g + 2) \div 16
                  [] (i - 1) % 3 = 1 ->
                        (Value(g + 2) % 16) * 16 + Value(g + 3) \div 4
                  [] OTHER -> (Value(g + 3) % 4) * 64 + Value(g + 4) ]

\* Buffer.from(text, 'base64') for text of base64 characters and "=": the
\* decoding ends at the first "="
Base64Decode(text) ==
    LET pads == { i \in 1..Len(text) : text[i] = "=" }
        stop == IF pads = {} THEN Len(text) + 1
                ELSE CHOOSE i \in pads : \A j \in pads : i <= j
    IN  Base64Bytes(Slice(text, 1, stop - 1))

DataScheme == << "d", "a", "t", "a", ":" >>

Base64Marker == << ";", "b", "a", "s", "e", "6", "4", "," >>

ImagePng == << "i", "m", "a", "g", "e", "/", "p", "n", "g" >>

ImageJpeg == << "i", "m", "a", "g", "e", "/", "j", "p", "e", "g" >>

ImageJpg == << "i", "m", "a", "g", "e", "/", "j", "p", "g" >>

\* the characters of the MIME type detectImageType returns
MimeText(mime) == IF mime = "image/png" THEN ImagePng ELSE ImageJpeg

\* dataUrl.match(/^data:(image\/(?:png|jpeg|jpg));base64,([A-Za-z0-9+/=]+)$/i):
\* whether it matches, and the two groups
DataUrlMatch(dataUrl) ==
    LET Header(m)  == DataScheme \o m \o Base64Marker
        Payload(m) == Slice(dataUrl, Len(Header(m)) + 1, Len(dataUrl))
        fits == { m \in {ImagePng, ImageJpeg, ImageJpg} :
                    /\ Len(dataUrl) > Len(Header(m))
                    /\ toLowerCase(Slice(dataUrl, 1, Len(Header(m)))) = Header(m)
                    /\ LET payload == Payload(m)
                       IN  \A i \in 1..Len(payload) :
                              IsBase64Char(payload[i]) \/ payload[i] = "=" }
    IN  IF fits = {} THEN [matched |-> FALSE, mime |-> <<>>, payload |-> <<>>]
        ELSE LET m == CHOOSE m \in fits : TRUE
             IN  [ matched |-> TRUE,
                   mime    |-> Slice(dataUrl, Len(DataScheme) + 1,
                                     Len(DataScheme) + Len(m)),
                   payload |-> Payload(m) ]

(***************************************************************************)
(* The image functions.                                                    *)
(***************************************************************************)
imageMinDim == 512

imageMaxDim == 2048

imageMaxBytes == 500 * 1024

\* buffer[i], for an index inside the buffer (the first byte has index 0)
ByteAt(buffer, i) == buffer[i + 1]

\* buffer.readUInt16BE(offset), for an offset it accepts
readUInt16BE(buffer, offset) ==
    ByteAt(buffer, offset) * 256 + ByteAt(buffer, offset + 1)

\* buffer.readUInt32BE(offset), for an offset it accepts
readUInt32BE(buffer, offset) ==
    ((ByteAt(buffer, offset) * 256 + ByteAt(buffer, offset + 1)) * 256
        + ByteAt(buffer, offset + 2)) * 256 + ByteAt(buffer, offset + 3)

\* Buffer.from([0x89, 0x50, 0x4E, 0x47, 0x0D, 0x0A, 0x1A, 0x0A])
PngSignature == <<137, 80, 78, 71, 13, 10, 26, 10>>

\* detectImageType(buffer): the type, or the message of the error it throws
detectImageType(buffer) ==
    LET isPng  == Len(buffer) > 8 /\ Slice(buffer, 1, 8) = PngSignature
        isJpeg == /\ Len(buffer) > 3
                  /\ ByteAt(buffer, 0) = 255
                  /\ ByteAt(buffer, 1) = 216
                  /\ ByteAt(buffer, 2) = 255
    IN  IF isPng THEN [error |-> "", mime |-> "image/png", ext |-> "png"]
        ELSE IF isJpeg THEN [error |-> "", mime |-> "image/jpeg", ext |-> "jpg"]
        ELSE [error |-> "Unsupported image format. Use PNG or JPEG.",
              mime |-> "", ext |-> ""]

NoDimensions(message) == [error |-> message, width |-> 0, height |-> 0]

\* the marker has dimensions: 0xC0..0xCF except 0xC4, 0xC8, 0xCC (a marker
\* read past the end of the buffer is undefined and has none)
HasDimensions(buffer, offset) ==
    /\ offset + 1 < Len(buffer)
    /\ ByteAt(buffer, offset + 1) >= 192
    /\ ByteAt(buffer, offset + 1) <= 207
    /\ ByteAt(buffer, offset + 1) \notin {196, 200, 204}

\* faulty variant: height and width are read from each other's place
FrameDimensionsSwapped(buffer, offset) ==
    [ error  |-> "",
      width  |-> readUInt16BE(buffer, offset + 5),
      height |-> readUInt16BE(buffer, offset + 7) ]

\* what the walk returns at a marker with dimensions
FrameDimensions(buffer, offset) ==
    [ error  |-> "",
      height |-> readUInt16BE(buffer, offset + 5),
      width  |-> readUInt16BE(buffer, offset + 7) ]

\* the while loop of parseImageDimensions for image/jpeg, from `offset` on;
\* readUInt16BE throws a RangeError (ERR_OUT_OF_RANGE) when offset + 2 is
\* beyond length - 2
RECURSIVE JpegWalk(_, _)
JpegWalk(buffer, offset) ==
    IF ~(offset < Len(buffer))
    THEN NoDimensions("Could not parse JPEG dimensions")
    ELSE IF ByteAt(buffer, offset) # 255
    THEN JpegWalk(buffer, offset + 1)
    ELSE IF offset + 2 > Len(buffer) - 2
    THEN NoDimensions("ERR_OUT_OF_RANGE")
    ELSE IF HasDimensions(buffer, offset)
    THEN IF offset + 9 >= Len(buffer)
         THEN NoDimensions("Could not parse JPEG dimensions")
         ELSE FrameDimensions(buffer, offset)
    ELSE JpegWalk(buffer, offset + 2 + readUInt16BE(buffer, offset + 2))

\* faulty variant: the PNG width and height are read from each other's place
parseImageDimensionsSwapped(buffer, mime) ==
    IF mime = "image/png"
    THEN IF Len(buffer) < 24
         THEN NoDimensions("Invalid PNG image")
         ELSE [ error  |-> "",
                width  |-> readUInt32BE(buffer, 20),
                height |-> readUInt32BE(buffer, 16) ]
    ELSE IF mime = "image/jpeg"
    THEN JpegWalk(buffer, 2)
    ELSE NoDimensions("Unsupported image MIME type for dimension checks")

\* parseImageDimensions(buffer, mime): the dimensions, or the message of the
\* error it throws
parseImageDimensions(buffer, mime) ==
    IF mime = "image/png"
    THEN IF Len(buffer) < 24
         THEN NoDimensions("Invalid PNG image")
         ELSE [ error  |-> "",
                width  |-> readUInt32BE(buffer, 16),
                height |-> readUInt32BE(buffer, 20) ]
    ELSE IF mime = "image/jpeg"
    THEN JpegWalk(buffer, 2)
    ELSE NoDimensions("Unsupported image MIME type for dimension checks")

\* faulty variant: the upper limit is tested before the lower one
validateImageShapeLargeFirst(dimensions) ==
    LET width  == dimensions.width
        height == dimensions.height
    IN  IF width > imageMaxDim \/ height > imageMaxDim THEN "Image too large"
        ELSE IF width < imageMinDim \/ height < imageMinDim THEN "Image too small"
        ELSE IF (IF width >= height THEN width - height ELSE height - width) > 2
        THEN "Image must be square"
        ELSE ""

\* validateImageShape(dimensions): the start of the message of the error it
\* throws, "" when it returns
validateImageShape(dimensions) ==
    LET width  == dimensions.width
        height == dimensions.height
    IN  IF width < imageMinDim \/ height < imageMinDim THEN "Image too small"
        ELSE IF width > imageMaxDim \/ height > imageMaxDim THEN "Image too large"
        ELSE IF (IF width >= height THEN width - height ELSE height - width) > 2
        THEN "Image must be square"
        ELSE ""

\* `data:${imageType.mime};base64,${imageBuffer.toString('base64')}`
CanonicalDataUrl(mime, imageBuffer) ==
    DataScheme \o MimeText(mime) \o Base64Marker \o Base64Encode(imageBuffer)

NoImage(message) ==
    [ error |-> message, mime |-> "", width |-> 0, height |-> 0,
      dataUrl |-> <<>> ]

\* faulty variant: the size cap is tested after the type and the dimensions
NormalizeBufferCapLast(imageBuffer) ==
    LET imageType  == detectImageType(imageBuffer)
        dimensions == parseImageDimensions(imageBuffer, imageType.mime)
        shape      == validateImageShape(dimensions)
    IN  IF imageType.error # ""
        THEN NoImage(imageType.error)
        ELSE IF dimensions.error # ""
        THEN [NoImage(dimensions.error) EXCEPT !.mime = imageType.mime]
        ELSE IF Len(imageBuffer) > imageMaxBytes
        THEN NoImage("Image exceeds 500KB hard cap.")
        ELSE [ error   |-> shape, mime |-> imageType.mime,
               width   |-> dimensions.width, height |-> dimensions.height,
               dataUrl |-> IF shape = ""
                           THEN CanonicalDataUrl(imageType.mime, imageBuffer)
                           ELSE <<>> ]

\* normalizeImageInput once the bytes are at hand (and normalizeDataUrlImage
\* after its MIME test): the size cap, the type, the dimensions, the shape,
\* the data URL returned.  The fields keep what was computed before an error
\* was thrown.
NormalizeBuffer(imageBuffer) ==
    LET imageType  == detectImageType(imageBuffer)
        dimensions == parseImageDimensions(imageBuffer, imageType.mime)
        shape      == validateImageShape(dimensions)
    IN  IF Len(imageBuffer) > imageMaxBytes
        THEN NoImage("Image exceeds 500KB hard cap.")
        ELSE IF imageType.error # ""
        THEN NoImage(imageType.error)
        ELSE IF dimensions.error # ""
        THEN [NoImage(dimensions.error) EXCEPT !.mime = imageType.mime]
        ELSE [ error   |-> shape, mime |-> imageType.mime,
               width   |-> dimensions.width, height |-> dimensions.height,
               dataUrl |-> IF shape = ""
                           THEN CanonicalDataUrl(imageType.mime, imageBuffer)
                           ELSE <<>> ]

\* faulty variant: the declared MIME is never held against the bytes
MimeMismatchNever(claimedMime, mime) == FALSE

\* claimedMime !== imageType.mime &&
\*   !(claimedMime === 'image/jpg' && imageType.mime === 'image/jpeg')
MimeMismatch(claimedMime, mime) ==
    /\ claimedMime # MimeText(mime)
    /\ ~(claimedMime = ImageJpg /\ mime = "image/jpeg")

\* normalizeDataUrlImage(dataUrl): the data URL returned or the message of
\* the error thrown, with what was computed before
normalizeDataUrlImage(dataUrl) ==
    LET match       == DataUrlMatch(dataUrl)
        claimedMime == toLowerCase(match.mime)
        imageBuffer == Base64Decode(match.payload)
        imageType   == detectImageType(imageBuffer)
    IN  IF ~match.matched
        THEN NoImage("Invalid data URL image. Use base64 PNG or JPEG.")
        ELSE IF Len(imageBuffer) > imageMaxBytes \/ imageType.error # ""
        THEN NormalizeBuffer(imageBuffer)
        ELSE IF MimeMismatch(claimedMime, imageType.mime)
        THEN [NoImage("Image MIME/content mismatch") EXCEPT !.mime = imageType.mime]
        ELSE NormalizeBuffer(imageBuffer)

\* four bytes that hold a dimension of a PNG header
PngDimensionBytes ==
    { <<0, 0, 2, 0>>, <<0, 0, 2, 2>>, <<0, 0, 1, 255>>, <<0, 0, 8, 1>>,
      <<0, 1, 0, 0>>, <<127, 255, 255, 255>> }

\* signature, IHDR chunk length and name, width, height, and two bytes more
PngFile(widthBytes, heightBytes) ==
    PngSignature \o <<0, 0, 0, 13, 73, 72, 68, 82>> \o widthBytes
        \o heightBytes \o <<8, 6>>

PngLengths == {8, 9, 20, 23, 24, 26}

PngBuffers ==
    { Slice(PngFile(w, h), 1, n) :
        w \in PngDimensionBytes, h \in PngDimensionBytes, n \in PngLengths }

\* pieces JPEG buffers are put together from: a well-formed APP0 segment, one
\* whose length runs past what follows, a DHT segment with no payload, a
\* segment of length 0, a fill byte, bytes that are no marker, the end of
\* image marker, frame headers (SOF0 of 512x768, SOF2 of 1024x1024), a frame
\* header cut after its width, and one cut after its length
JpegPieces ==
    { <<255, 224, 0, 4, 1, 2>>,
      <<255, 224, 0, 16, 1, 2>>,
      <<255, 196, 0, 2>>,
      <<255, 224, 0, 0>>,
      <<255>>,
      <<1, 2>>,
      <<255, 217>>,
      <<255, 192, 0, 11, 8, 2, 0, 3, 0, 3>>,
      <<255, 194, 0, 11, 8, 4, 0, 4, 0, 3>>,
      <<255, 192, 0, 11, 8, 2, 0, 3, 0>>,
      <<255, 192, 0, 11>> }

MaxPieces == 3

RECURSIVE JpegBodies(_)
JpegBodies(n) ==
    IF n = 0 THEN { <<>> }
    ELSE LET shorter == JpegBodies(n - 1)
         IN  shorter \cup { body \o piece : body \in shorter, piece \in JpegPieces }

\* the start of image marker and up to MaxPieces pieces
JpegBuffers == { <<255, 216>> \o body : body \in JpegBodies(MaxPieces) }

\* a GIF header, and too few bytes to tell
OtherBuffers == { <<71, 73, 70, 56, 57, 97, 0, 2, 0, 2>>, <<255, 216, 255>>, <<>> }

ImageBuffers == PngBuffers \cup JpegBuffers \cup OtherBuffers

\* normalizeImageInput(imageFile) for a Buffer, which it handles without an
\* await
NormalizeImageInputCall(c, imageFile) ==
    /\ MayStart(c)
    /\ op' = [op EXCEPT ![c] = "normalizeImageInput"]
    /\ args' = [args EXCEPT ![c] = [imageFile |-> imageFile]]
    /\ LET image == NormalizeBuffer(imageFile)
       IN  /\ local' = [local EXCEPT ![c] = image]
           /\ IF image.error = ""
              THEN Goto(c, "done") /\ UNCHANGED result
              ELSE Throw(c, image.error)
    /\ UNCHANGED <<hasSigner, intents, requests, txs>>

DimensionInputs ==
    { 0, 511, 512, 514, 515, 900, 1000, 1001, 1003, 2046, 2048, 2049, 2051,
      65535 }

\* a direct call of validateImageShape({width, height})
ValidateImageShapeCall(c, width, height) ==
    /\ MayStart(c)
    /\ op' = [op EXCEPT ![c] = "validateImageShape"]
    /\ args' = [args EXCEPT ![c] = [width |-> width, height |-> height]]
    /\ LET message == validateImageShape([width |-> width, height |-> height])
       IN  IF message = ""
           THEN Goto(c, "done") /\ UNCHANGED result
           ELSE Throw(c, message)
    /\ UNCHANGED <<hasSigner, local, intents, requests, txs>>

\* the MIME types data URLs declare: the three of the pattern, one in
\* capitals, and one the pattern does not have
DeclaredInputs ==
    { ImagePng, ImageJpeg, ImageJpg,
      << "I", "M", "A", "G", "E", "/", "P", "N", "G" >>,
      << "i", "m", "a", "g", "e", "/", "g", "i", "f" >> }

\* the bytes data URLs carry: a PNG of 512x514, a JPEG of 1024x1024, a PNG
\* cut short, a JPEG with no frame header, and a GIF header
DataUrlBuffers ==
    { PngFile(<<0, 0, 2, 0>>, <<0, 0, 2, 2>>),
      <<255, 216, 255, 224, 0, 4, 1, 2,
        255, 194, 0, 11, 8, 4, 0, 4, 0, 3, 255, 217>>,
      Slice(PngFile(<<0, 0, 2, 0>>, <<0, 0, 2, 2>>), 1, 23),
      <<255, 216, 255, 224, 0, 4, 1, 2, 5>>,
      <<71, 73, 70, 56, 57, 97, 0, 2, 0, 2>> }

\* the data URL that declares a MIME type and carries the bytes in base64
DataUrlOf(declared, bytes) ==
    DataScheme \o declared \o Base64Marker \o Base64Encode(bytes)

DataUrlInputs ==
    { DataUrlOf(declared, bytes) :
        declared \in DeclaredInputs, bytes \in DataUrlBuffers }
      \cup { DataScheme \o ImagePng \o Base64Marker,
             DataScheme \o ImagePng \o << ",", "A", "A", "A", "A" >> }

\* normalizeImageInput(imageFile) for a string that starts with
\* 'data:image/': normalizeDataUrlImage(imageFile)
NormalizeDataUrlImageCall(c, imageFile) ==
    /\ MayStart(c)
    /\ op' = [op EXCEPT ![c] = "normalizeDataUrlImage"]
    /\ args' = [args EXCEPT ![c] = [imageFile |-> imageFile]]
    /\ LET image == normalizeDataUrlImage(imageFile)
       IN  /\ local' = [local EXCEPT ![c] = image]
           /\ IF image.error = ""
              THEN Goto(c, "done") /\ UNCHANGED result
              ELSE Throw(c, image.error)
    /\ UNCHANGED <<hasSigner, intents, requests, txs>>

\* what one pass of the while loop of parseImageDimensions does at `offset`:
\* it goes on at another offset, returns the dimensions, or throws (the loop
\* test failing and the break both lead to the throw after the loop)
WalkOutcome(buffer, offset, next) ==
    IF ~(offset < Len(buffer))
    THEN [kind |-> "throw", offset |-> offset,
          dimensions |-> NoDimensions("Could not parse JPEG dimensions")]
    ELSE IF ByteAt(buffer, offset) # 255
    THEN [kind |-> "continue", offset |-> offset + 1,
          dimensions |-> NoDimensions("")]
    ELSE IF offset + 2 > Len(buffer) - 2
    THEN [kind |-> "throw", offset |-> offset,
          dimensions |-> NoDimensions("ERR_OUT_OF_RANGE")]
    ELSE IF HasDimensions(buffer, offset)
    THEN IF offset + 9 >= Len(buffer)
         THEN [kind |-> "throw", offset |-> offset,
               dimensions |-> NoDimensions("Could not parse JPEG dimensions")]
         ELSE [kind |-> "return", offset |-> offset,
               dimensions |-> FrameDimensions(buffer, offset)]
    ELSE [kind |-> "continue", offset |-> next,
          dimensions |-> NoDimensions("")]

\* a direct call of parseImageDimensions(buffer, 'image/jpeg'), to the head
\* of its loop
ParseJpegCall(c, buffer) ==
    /\ MayStart(c)
    /\ op' = [op EXCEPT ![c] = "parseImageDimensions"]
    /\ args' = [args EXCEPT ![c] = [imageFile |-> buffer]]
    /\ local' = [local EXCEPT ![c] = [offset |-> 2, width |-> 0, height |-> 0]]
    /\ Goto(c, "loop")
    /\ UNCHANGED <<hasSigner, intents, requests, txs, result>>

\* faulty variant: the two bytes of the marker are not stepped over
WalkStepLengthOnly(c) ==
    /\ pc[c] = "loop"
    /\ LET buffer  == args[c].imageFile
           offset  == local[c].offset
           outcome == WalkOutcome(buffer, offset,
                                  offset + readUInt16BE(buffer, offset + 2))
       IN  /\ local' = [local EXCEPT ![c] =
                          [ offset |-> outcome.offset,
                            width  |-> outcome.dimensions.width,
                            height |-> outcome.dimensions.height ]]
           /\ CASE outcome.kind = "throw" -> Throw(c, outcome.dimensions.error)
                [] outcome.kind = "return" -> Goto(c, "done") /\ UNCHANGED result
                [] OTHER -> UNCHANGED <<pc, result>>
    /\ UNCHANGED <<hasSigner, op, args, intents, requests, txs>>

\* one pass of the while loop: offset++ at a byte other than 0xFF,
\* offset += 2 + segmentLength at a marker without dimensions
WalkStep(c) ==
    /\ pc[c] = "loop"
    /\ LET buffer  == args[c].imageFile
           offset  == local[c].offset
           outcome == WalkOutcome(buffer, offset,
                                  offset + 2 + readUInt16BE(buffer, offset + 2))
       IN  /\ local' = [local EXCEPT ![c] =
                          [ offset |-> outcome.offset,
                            width  |-> outcome.dimensions.width,
                            height |-> outcome.dimensions.height ]]
           /\ CASE outcome.kind = "throw" -> Throw(c, outcome.dimensions.error)
                [] outcome.kind = "return" -> Goto(c, "done") /\ UNCHANGED result
                [] OTHER -> UNCHANGED <<pc, result>>
    /\ UNCHANGED <<hasSigner, op, args, intents, requests, txs>>

\* the buffers the walk is given: those of a JPEG, and buffers too short
\* or of another format
WalkBuffers == JpegBuffers \cup OtherBuffers

(***************************************************************************)
(* The marker walk of parseImageDimensions, one pass of its loop at a      *)
(* time.                                                                   *)
(***************************************************************************)
WalkNext ==
    \/ \E c \in Calls :
          MayStart(c) /\ \E buffer \in WalkBuffers : ParseJpegCall(c, buffer)
    \/ \E c \in Calls : WalkStep(c)
    \/ \E c \in Calls : Return(c)

WalkSpec == Init /\ [][WalkNext]_vars

(***************************************************************************)
(* The private functions called on their own.                              *)
(***************************************************************************)
UnitNext ==
    \/ \E c \in Calls :
          MayStart(c) /\ \E params \in ParamsInputs : ValidateLaunchParamsCall(c, params)
    \/ \E c \in Calls :
          MayStart(c) /\ \E w \in DimensionInputs, h \in DimensionInputs :
                            ValidateImageShapeCall(c, w, h)
    \/ \E c \in Calls :
          MayStart(c) /\ \E buffer \in ImageBuffers : NormalizeImageInputCall(c, buffer)
    \/ \E c \in Calls :
          MayStart(c) /\ \E dataUrl \in DataUrlInputs :
                            NormalizeDataUrlImageCall(c, dataUrl)
    \/ \E c \in Calls : Return(c)

UnitSpec == Init /\ [][UnitNext]_vars

(***************************************************************************)
(* buildLaunchMetadata and prepareLaunchToken on the values themselves:    *)
(* the image as a Buffer, a data URL or a file, the social URLs, and the   *)
(* metadata as the characters of its JSON text.                            *)
(***************************************************************************)
\* the characters with the codes 32..95
AsciiLow ==
    << " ", "!", "\"", "#", "$", "%", "&", "'", "(", ")", "*", "+", ",",
       "-", ".", "/", "0", "1", "2", "3", "4", "5", "6", "7", "8", "9",
       ":", ";", "<", "=", ">", "?", "@", "A", "B", "C", "D", "E", "F",
       "G", "H", "I", "J", "K", "L", "M", "N", "O", "P", "Q", "R", "S",
       "T", "U", "V", "W", "X", "Y", "Z", "[", "\\", "]", "^", "_" >>

\* the characters with the codes 97..126
AsciiHigh ==
    << "a", "b", "c", "d", "e", "f", "g", "h", "i", "j", "k", "l", "m",
       "n", "o", "p", "q", "r", "s", "t", "u", "v", "w", "x", "y", "z",
       "{", "|", "}", "~" >>

\* the code of a character: tab, line feed, and the printable ones but the
\* grave accent
CharCode(ch) ==
    IF ch = "\t" THEN 9
    ELSE IF ch = "\n" THEN 10
    ELSE IF \E k \in 1..64 : AsciiLow[k] = ch
    THEN 31 + (CHOOSE k \in 1..64 : AsciiLow[k] = ch)
    ELSE 96 + (CHOOSE k \in 1..30 : AsciiHigh[k] = ch)

\* Buffer.from(text): the UTF-8 bytes of text, one byte for each of the
\* characters above
Utf8Bytes(text) == <<>> \o [i \in 1..Len(text) |-> CharCode(text[i])]

\* position of the first ch in s, 0 when there is none
IndexOf(s, ch) ==
    IF \E i \in 1..Len(s) : s[i] = ch
    THEN CHOOSE i \in 1..Len(s) : s[i] = ch /\ \A j \in 1..(i - 1) : s[j] # ch
    ELSE 0

\* how many "/" s begins with
LeadingSlashes(s) ==
    CHOOSE k \in 0..Len(s) :
        /\ \A i \in 1..k : s[i] = "/"
        /\ k = Len(s) \/ s[k + 1] # "/"

IsLetter(ch) ==
    \E k \in 1..26 : UpperCaseLetters[k] = ch \/ LowerCaseLetters[k] = ch

HttpScheme == << "h", "t", "t", "p" >>

HttpsScheme == << "h", "t", "t", "p", "s" >>

\* new URL(value).toString(), for values made of a scheme of letters and
\* text that needs no percent-encoding: there must be a scheme; for http and
\* https the slashes after the colon are skipped, the host must not be
\* empty and is written in lower case, and an empty path becomes "/"
UrlToString(value) ==
    LET colon   == IndexOf(value, ":")
        scheme  == <<>> \o toLowerCase(Slice(value, 1, colon - 1))
        rest    == Slice(value, colon + 1, Len(value))
        after   == Slice(rest, LeadingSlashes(rest) + 1, Len(rest))
        slash   == IndexOf(after, "/")
        host    == IF slash = 0 THEN after ELSE Slice(after, 1, slash - 1)
        path    == IF slash = 0 THEN <<>> ELSE Slice(after, slash, Len(after))
        NoUrl   == [ok |-> FALSE, href |-> <<>>]
    IN  IF colon < 2 \/ \E i \in 1..Len(scheme) : ~IsLetter(scheme[i])
        THEN NoUrl
        ELSE IF scheme \notin {HttpScheme, HttpsScheme}
        THEN [ok |-> TRUE, href |-> scheme \o <<":">> \o rest]
        ELSE IF host = <<>>
                  \/ \E i \in 1..Len(host) :
                        host[i] \notin Alphanumerics \cup {".", "-"}
        THEN NoUrl
        ELSE [ ok   |-> TRUE,
               href |-> scheme \o << ":", "/", "/" >> \o toLowerCase(host)
                          \o (IF path = <<>> THEN <<"/">> ELSE path) ]

\* JSON.stringify of a character of a string
JsonEscape(ch) ==
    IF ch = "\"" THEN << "\\", "\"" >>
    ELSE IF ch = "\\" THEN << "\\", "\\" >>
    ELSE IF ch = "\n" THEN << "\\", "n" >>
    ELSE IF ch = "\t" THEN << "\\", "t" >>
    ELSE << ch >>

RECURSIVE JsonChars(_)
JsonChars(s) ==
    IF s = <<>> THEN <<>> ELSE JsonEscape(Head(s)) \o JsonChars(Tail(s))

\* JSON.stringify(s) for a string
JsonString(s) == <<"\"">> \o JsonChars(s) \o <<"\"">>

RECURSIVE JsonMembers(_)
JsonMembers(entries) ==
    IF entries = <<>> THEN <<>>
    ELSE JsonString(entries[1][1]) \o <<":">> \o JsonString(entries[1][2])
           \o (IF Len(entries) > 1 THEN <<",">> ELSE <<>>)
           \o JsonMembers(Tail(entries))

\* JSON.stringify(object) for an object whose values are strings; the object
\* is the sequence of its <<key, value>> pairs in the order the keys were
\* inserted, which is the order JSON.stringify writes them in
JsonStringify(entries) == <<"{">> \o JsonMembers(entries) \o <<"}">>

NameKey == << "n", "a", "m", "e" >>

SymbolKey == << "s", "y", "m", "b", "o", "l" >>

DescriptionKey == << "d", "e", "s", "c", "r", "i", "p", "t", "i", "o", "n" >>

ExternalUrlKey == << "e", "x", "t", "e", "r", "n", "a", "l", "_", "u", "r", "l" >>

PlatformKey == << "p", "l", "a", "t", "f", "o", "r", "m" >>

ImageKey == << "i", "m", "a", "g", "e" >>

\* the four social fields in the order buildLaunchMetadata reads them, each
\* with the key it is stored under
SocialKeys ==
    << << "website",  << "w", "e", "b", "s", "i", "t", "e" >> >>,
       << "twitter",  << "t", "w", "i", "t", "t", "e", "r" >> >>,
       << "telegram", << "t", "e", "l", "e", "g", "r", "a", "m" >> >>,
       << "discord",  << "d", "i", "s", "c", "o", "r", "d" >> >> >>

ExternalUrl ==
    << "h", "t", "t", "p", "s", ":", "/", "/", "m", "o", "l", "t", "m", "o",
       "o", "n", ".", "x", "y", "z" >>

Platform ==
    << "B", "u", "i", "l", "t", " ", "w", "i", "t", "h", " ", "M", "o", "l",
       "t", "M", "o", "o", "n", " ", "S", "D", "K" >>

JsonUriPrefix ==
    << "d", "a", "t", "a", ":", "a", "p", "p", "l", "i", "c", "a", "t", "i",
       "o", "n", "/", "j", "s", "o", "n", ";", "b", "a", "s", "e", "6", "4",
       "," >>

\* the message of the error normalizeUrl throws for the field (the value is
\* left out of it)
InvalidUrl ==
    [ website  |-> "Invalid website URL", twitter |-> "Invalid twitter URL",
      telegram |-> "Invalid telegram URL", discord |-> "Invalid discord URL" ]

\* the social fields from the k-th on: each one given (not undefined, not
\* empty) is normalised and stored under its key
RECURSIVE AddSocials(_, _, _)
AddSocials(metadata, socials, k) ==
    IF k > Len(SocialKeys) THEN [error |-> "", metadata |-> metadata]
    ELSE LET field == SocialKeys[k][1]
             url   == UrlToString(socials[field])
         IN  IF socials[field] = <<>>
             THEN AddSocials(metadata, socials, k + 1)
             ELSE IF ~url.ok
             THEN [error |-> InvalidUrl[field], metadata |-> metadata]
             ELSE AddSocials(Append(metadata, <<SocialKeys[k][2], url.href>>),
                             socials, k + 1)

\* faulty variant: the image is stored after the social fields
LaunchMetadataImageLast(params, imageUrl) ==
    LET socials == AddSocials(
                     << <<NameKey, trim(params.name)>>,
                        <<SymbolKey, trim(params.symbol)>>,
                        <<DescriptionKey, trim(params.description)>>,
                        <<ExternalUrlKey, ExternalUrl>>,
                        <<PlatformKey, Platform>> >>, params.socials, 1)
    IN  IF imageUrl = <<>> \/ socials.error # "" THEN socials
        ELSE [socials EXCEPT !.metadata = Append(@, <<ImageKey, imageUrl>>)]

\* the metadata object of buildLaunchMetadata, or the error thrown while it
\* is filled
LaunchMetadata(params, imageUrl) ==
    LET fixed == << <<NameKey, trim(params.name)>>,
                    <<SymbolKey, trim(params.symbol)>>,
                    <<DescriptionKey, trim(params.description)>>,
                    <<ExternalUrlKey, ExternalUrl>>,
                    <<PlatformKey, Platform>> >>
    IN  AddSocials(IF imageUrl = <<>> THEN fixed
                   ELSE Append(fixed, <<ImageKey, imageUrl>>),
                   params.socials, 1)

\* `data:application/json;base64,${Buffer.from(JSON.stringify(metadata))
\*    .toString('base64')}`
MetadataUri(metadata) ==
    JsonUriPrefix \o Base64Encode(Utf8Bytes(JsonStringify(metadata)))

\* imageFile of LaunchParams: undefined, a string, a Buffer, or a value of
\* another type that an untyped caller passes.  A string or a Buffer is
\* written as `value`, then `fill` times the same item (the letter A in a
\* string, the byte 0 in a Buffer), then `tail`: a long run of one item is
\* held as its length.
NoImageFile == [kind |-> "undefined", value |-> <<>>, fill |-> 0, tail |-> <<>>]

StringFile(text) == [NoImageFile EXCEPT !.kind = "string", !.value = text]

BufferFile(bytes) == [NoImageFile EXCEPT !.kind = "Buffer", !.value = bytes]

OtherFile == [NoImageFile EXCEPT !.kind = "other"]

\* the characters of the string, the bytes of the Buffer
Contents(imageFile) ==
    imageFile.value
        \o [i \in 1..imageFile.fill |-> IF imageFile.kind = "Buffer" THEN 0 ELSE "A"]
        \o imageFile.tail

DataImagePrefix == << "d", "a", "t", "a", ":", "i", "m", "a", "g", "e", "/" >>

\* s.startsWith(prefix)
startsWith(s, prefix) ==
    Len(s) >= Len(prefix) /\ Slice(s, 1, Len(prefix)) = prefix

\* the branch normalizeImageInput(imageFile) takes
ImageRoute(imageFile) ==
    IF imageFile.kind = "undefined"
         \/ (imageFile.kind = "string" /\ Contents(imageFile) = <<>>)
    THEN "none"
    ELSE IF imageFile.kind = "string"
              /\ startsWith(Contents(imageFile), DataImagePrefix)
    THEN "dataUrl"
    ELSE IF imageFile.kind = "Buffer" THEN "buffer"
    ELSE IF imageFile.kind = "string" THEN "readFile"
    ELSE "unsupported"

\* imageBuffer of normalizeDataUrlImage: the bytes the data URL carries,
\* none when it does not match
DataUrlBuffer(dataUrl) ==
    LET match == DataUrlMatch(dataUrl)
    IN  IF match.matched THEN Base64Decode(match.payload) ELSE <<>>

\* the locals of buildLaunchMetadata and of the image methods it calls:
\* what readFile returned, imageBuffer.length, what was read of the image,
\* imageUrl and metadataURI
NoBuild ==
    [ file |-> NoImageFile, imageLength |-> 0, mime |-> "", width |-> 0,
      height |-> 0, imageUrl |-> <<>>, metadataURI |-> <<>> ]

\* POST /upload/image with body {image: imageDataUrl}
UploadImageRequest(imageDataUrl) ==
    [endpoint |-> "upload/image", body |-> [image |-> imageDataUrl]]

\* POST /intent/factory/approve-seed with body {amount: params.seedAmount}
ApproveSeedRequestOf(params) ==
    [ endpoint |-> "intent/factory/approve-seed",
      body     |-> [amount |-> params.seedAmount] ]

\* POST /intent/tokens/create with body {name, symbol, uri, seedAmount}
CreateRequestOf(params, metadataURI) ==
    [ endpoint |-> "intent/tokens/create",
      body     |-> [ name       |-> trim(params.name),
                     symbol     |-> trim(params.symbol),
                     uri        |-> metadataURI,
                     seedAmount |-> params.seedAmount ] ]

\* buildLaunchMetadata from the metadata object on; prepareLaunchToken then
\* requests the approve-seed intent
FinishBuild(c, method, params, build, imageUrl) ==
    LET built == LaunchMetadata(params, imageUrl)
    IN  IF built.error # ""
        THEN /\ Throw(c, built.error)
             /\ local' = [local EXCEPT ![c] = [build EXCEPT !.imageUrl = imageUrl]]
             /\ UNCHANGED requests
        ELSE /\ local' = [local EXCEPT ![c] =
                            [build EXCEPT !.imageUrl = imageUrl,
                                          !.metadataURI = MetadataUri(built.metadata)]]
             /\ UNCHANGED result
             /\ IF method = "prepareLaunchToken"
                THEN /\ Issue(c, ApproveSeedRequestOf(params))
                     /\ Goto(c, "await_approve_intent")
                ELSE Goto(c, "done") /\ UNCHANGED requests

\* faulty variant: the upload is requested whatever the checks found
ImageLoadedUploadAlways(c, image, imageBuffer, file) ==
    /\ local' = [local EXCEPT ![c] =
                   [NoBuild EXCEPT !.file = file,
                                   !.imageLength = Len(imageBuffer),
                                   !.mime = image.mime, !.width = image.width,
                                   !.height = image.height]]
    /\ Issue(c, UploadImageRequest(image.dataUrl))
    /\ Goto(c, "await_upload")
    /\ UNCHANGED result

\* normalizeImageInput has the bytes: image is what it returns or throws;
\* buildLaunchMetadata requests the upload of the data URL returned
ImageLoaded(c, image, imageBuffer, file) ==
    /\ local' = [local EXCEPT ![c] =
                   [NoBuild EXCEPT !.file = file,
                                   !.imageLength = Len(imageBuffer),
                                   !.mime = image.mime, !.width = image.width,
                                   !.height = image.height]]
    /\ IF image.error # ""
       THEN Throw(c, image.error) /\ UNCHANGED requests
       ELSE /\ Issue(c, UploadImageRequest(image.dataUrl))
            /\ Goto(c, "await_upload")
            /\ UNCHANGED result

\* buildLaunchMetadata(params), called by prepareLaunchToken(params) or on
\* its own, to its first await
BuildBegin(c, method, params) ==
    /\ op' = [op EXCEPT ![c] = method]
    /\ args' = [args EXCEPT ![c] = params]
    /\ LET message == validateLaunchParamsThrows(params)
           route   == ImageRoute(params.imageFile)
           value   == Contents(params.imageFile)
       IN  IF message # ""
           THEN /\ Throw(c, message)
                /\ local' = [local EXCEPT ![c] = NoBuild]
                /\ UNCHANGED requests
           ELSE CASE route = "none" ->
                       FinishBuild(c, method, params, NoBuild, <<>>)
                  [] route = "dataUrl" ->
                       LET image       == normalizeDataUrlImage(value)
                           imageBuffer == DataUrlBuffer(value)
                       IN  ImageLoaded(c, image, imageBuffer, NoImageFile)
                  [] route = "buffer" ->
                       LET image == NormalizeBuffer(value)
                       IN  ImageLoaded(c, image, value, NoImageFile)
                  [] route = "readFile" ->
                       /\ Goto(c, "await_readFile")
                       /\ local' = [local EXCEPT ![c] = NoBuild]
                       /\ UNCHANGED <<requests, result>>
                  [] OTHER ->
                       /\ Throw(c, "Unsupported imageFile type. Use Buffer, data URL, or local file path.")
                       /\ local' = [local EXCEPT ![c] = NoBuild]
                       /\ UNCHANGED requests
    /\ UNCHANGED <<hasSigner, intents, txs>>

\* readFile(imageFile) returns the bytes of the file, a Buffer, or throws
ReadFileBytesReturn(c, ok, file) ==
    /\ pc[c] = "await_readFile"
    /\ IF ok
       THEN LET imageBuffer == Contents(file)
                image       == NormalizeBuffer(imageBuffer)
            IN  ImageLoaded(c, image, imageBuffer, file)
       ELSE Throw(c, "ENOENT") /\ UNCHANGED <<local, requests>>
    /\ UNCHANGED <<hasSigner, op, args, intents, txs>>

\* the answer to POST /upload/image: {url}, or an error status
UploadImageReturn(c, ok, url) ==
    /\ pc[c] = "await_upload"
    /\ IF ok
       THEN FinishBuild(c, op[c], args[c], local[c], url)
       ELSE Throw(c, "Api") /\ UNCHANGED <<local, requests>>
    /\ UNCHANGED <<hasSigner, op, args, intents, txs>>

\* the approve-seed intent arrives (or the request throws); prepareLaunchToken
\* requests the create intent
PrepareApproveReturn(c, ok, intent) ==
    /\ pc[c] = "await_approve_intent"
    /\ IF ok
       THEN /\ intents' = [intents EXCEPT ![c].approve = intent]
            /\ Issue(c, CreateRequestOf(args[c], local[c].metadataURI))
            /\ Goto(c, "await_action_intent")
            /\ UNCHANGED result
       ELSE Throw(c, "Api") /\ UNCHANGED <<intents, requests>>
    /\ UNCHANGED <<hasSigner, op, args, local, txs>>

\* the create intent arrives (or the request throws); prepareLaunchToken
\* returns {metadataURI, imageUrl, approveIntent, createIntent}
PrepareCreateReturn(c, ok, intent) ==
    /\ pc[c] = "await_action_intent"
    /\ IF ok
       THEN /\ intents' = [intents EXCEPT ![c].action = intent]
            /\ Goto(c, "done")
            /\ UNCHANGED result
       ELSE Throw(c, "Api") /\ UNCHANGED intents
    /\ UNCHANGED <<hasSigner, op, args, local, requests, txs>>

\* a Buffer of n bytes: head, then zero bytes
FilledBuffer(head, n) == [BufferFile(head) EXCEPT !.fill = n - Len(head)]

\* the data URL, declared as `declared`, of that Buffer, for a head of a
\* multiple of three bytes: three zero bytes are the letters AAAA, and the
\* one or two bytes left over are encoded at the end
FilledDataUrl(declared, head, n) ==
    [StringFile(DataUrlOf(declared, head)) EXCEPT
        !.fill = 4 * ((n - Len(head)) \div 3),
        !.tail = Base64Encode([i \in 1..((n - Len(head)) % 3) |-> 0])]

\* a PNG header of 512x512
ValidPng == PngFile(<<0, 0, 2, 0>>, <<0, 0, 2, 0>>)

\* a PNG header of 511x511, and the PNG headers with one zero byte more
SmallPng == PngFile(<<0, 0, 1, 255>>, <<0, 0, 1, 255>>)

ValidPngHead == ValidPng \o <<0>>

SmallPngHead == SmallPng \o <<0>>

\* Buffers of one byte more than imageMaxBytes, a PNG of 512x512 and zero
\* bytes only, and Buffers of exactly imageMaxBytes bytes, a PNG of 511x511
\* and zero bytes only
CapBufferFiles ==
    { FilledBuffer(ValidPngHead, imageMaxBytes + 1),
      FilledBuffer(<<>>, imageMaxBytes + 1),
      FilledBuffer(SmallPngHead, imageMaxBytes),
      FilledBuffer(<<>>, imageMaxBytes) }

\* data URLs that carry the two PNG images, declared as PNG, and the one of
\* 512x512 declared as JPEG
CapDataUrls ==
    { FilledDataUrl(ImagePng, ValidPngHead, imageMaxBytes + 1),
      FilledDataUrl(ImageJpeg, ValidPngHead, imageMaxBytes + 1),
      FilledDataUrl(ImagePng, SmallPngHead, imageMaxBytes) }

LogoPath == << ".", "/", "l", "o", "g", "o", ".", "p", "n", "g" >>

\* what readFile may find in the file
FileContents ==
    { BufferFile(bytes) : bytes \in DataUrlBuffers } \cup CapBufferFiles

NoSocials ==
    [website |-> <<>>, twitter |-> <<>>, telegram |-> <<>>, discord |-> <<>>]

\* no social URL; a website in capitals; a website and a discord URL; a
\* twitter handle that is no URL, before a telegram URL
SocialInputs ==
    { NoSocials,
      [NoSocials EXCEPT !.website =
         << "h", "t", "t", "p", "s", ":", "/", "/", "E", "x", "a", "m", "p",
            "l", "e", ".", "c", "o", "m" >>],
      [NoSocials EXCEPT !.website =
         << "h", "t", "t", "p", ":", "/", "/", "t", ".", "m", "e", "/", "m",
            "o", "l", "t" >>,
                        !.discord =
         << "h", "t", "t", "p", "s", ":", "/", "/", "x", ".", "c", "o", "m",
            "/", "m", "o", "l", "t" >>],
      [NoSocials EXCEPT !.twitter = << "@", "m", "o", "l", "t" >>,
                        !.telegram =
         << "h", "t", "t", "p", ":", "/", "/", "t", ".", "m", "e", "/", "m",
            "o", "l", "t" >>] }

\* name, symbol, description and seed amount that validateLaunchParams
\* accepts
GoodParams ==
    [ name        |-> <<"A", "B">>,
      symbol      |-> <<"T", "K", "N", "1">>,
      description |-> Repeat("d", 5),
      seedAmount  |-> <<"2", "0">>,
      imageFile   |-> NoImageFile,
      socials     |-> NoSocials ]

\* imageFile as a string or left out: no image, an empty string, a value
\* that is neither a string nor a Buffer, and data URLs of ordinary size; a
\* path, and data URLs at the size cap
SmallStringFiles ==
    { NoImageFile, StringFile(<<>>), OtherFile }
      \cup { StringFile(dataUrl) : dataUrl \in DataUrlInputs }

CapStringFiles == { StringFile(LogoPath) } \cup CapDataUrls

\* imageFile as a Buffer of ordinary size
SmallBufferFiles == { BufferFile(bytes) : bytes \in DataUrlBuffers }

\* LaunchParams: every image of ordinary size with every choice of social
\* URLs, under a good name and under a name too short; the path and the
\* images at the size cap under good parameters
BuildInputsOf(smallFiles, capFiles) ==
    { [GoodParams EXCEPT !.name = name, !.imageFile = imageFile,
                         !.socials = socials] :
        name \in {<<"A", "B">>, <<"A">>}, imageFile \in smallFiles,
        socials \in SocialInputs }
      \cup { [GoodParams EXCEPT !.imageFile = imageFile] :
               imageFile \in capFiles }

BuildStringInputs == BuildInputsOf(SmallStringFiles, CapStringFiles)

BuildBufferInputs == BuildInputsOf(SmallBufferFiles, CapBufferFiles)

\* the url of the answer to an upload: a hosted URL, or an empty string
UploadUrls ==
    { << "h", "t", "t", "p", "s", ":", "/", "/", "c", "d", "n", "/", "a" >>,
      <<>> }

\* a direct call of buildLaunchMetadata(params)
BuildLaunchMetadataCall(c, params) ==
    /\ MayStart(c)
    /\ BuildBegin(c, "buildLaunchMetadata", params)

ImageNext ==
    \/ \E c \in Calls, kind \in {"string", "Buffer"} :
          MayStart(c)
            /\ \E params \in (IF kind = "string" THEN BuildStringInputs
                               ELSE BuildBufferInputs) :
                  BuildLaunchMetadataCall(c, params)
    \/ \E c \in Calls :
          pc[c] = "await_readFile"
            /\ \E file \in FileContents : ReadFileBytesReturn(c, TRUE, file)
    \/ \E c \in Calls : ReadFileBytesReturn(c, FALSE, NoImageFile)
    \/ \E c \in Calls, url \in UploadUrls : UploadImageReturn(c, TRUE, url)
    \/ \E c \in Calls : UploadImageReturn(c, FALSE, <<>>)
    \/ \E c \in Calls : Return(c)

ImageSpec == Init /\ [][ImageNext]_vars

\* LaunchParams of dry runs: no image or the data URL of a PNG of 512x514
\* with every choice of social URLs, and no image under a name with white
\* space around it; that PNG as a Buffer with no and with two social URLs
PreparedPng == PngFile(<<0, 0, 2, 0>>, <<0, 0, 2, 2>>)

PrepareStringInputs ==
    { [GoodParams EXCEPT !.imageFile = imageFile, !.socials = socials] :
        imageFile \in { NoImageFile,
                        StringFile(DataUrlOf(ImagePng, PreparedPng)) },
        socials \in SocialInputs }
      \cup { [GoodParams EXCEPT !.name = <<" ", "A", "B", " ">>] }

PrepareBufferInputs ==
    { [GoodParams EXCEPT !.imageFile = BufferFile(PreparedPng),
                         !.socials = socials] :
        socials \in { NoSocials,
                      [NoSocials EXCEPT !.telegram = ExternalUrl,
                                        !.twitter = ExternalUrl] } }

\* sdk.prepareLaunchToken(params); nothing in the SDK keeps a second call
\* from starting while the first one waits
PrepareLaunchTokenCall(c, params) ==
    /\ pc[c] = "idle"
    /\ BuildBegin(c, "prepareLaunchToken", params)

(***************************************************************************)
(* Dry runs of the launch, two at a time.                                  *)
(***************************************************************************)
PrepareNext ==
    \/ \E c \in Calls, kind \in {"string", "Buffer"} :
          pc[c] = "idle"
            /\ \E params \in (IF kind = "string" THEN PrepareStringInputs
                               ELSE PrepareBufferInputs) :
                  PrepareLaunchTokenCall(c, params)
    \/ \E c \in Calls, url \in UploadUrls : UploadImageReturn(c, TRUE, url)
    \/ \E c \in Calls : UploadImageReturn(c, FALSE, <<>>)
    \/ \E c \in Calls, i \in BackendIntents : PrepareApproveReturn(c, TRUE, i)
    \/ \E c \in Calls : PrepareApproveReturn(c, FALSE, NoIntent)
    \/ \E c \in Calls, i \in BackendIntents : PrepareCreateReturn(c, TRUE, i)
    \/ \E c \in Calls : PrepareCreateReturn(c, FALSE, NoIntent)
    \/ \E c \in Calls : Return(c)

PrepareSpec == Init /\ [][PrepareNext]_vars

(***************************************************************************)
(* Vocabulary of the properties.                                           *)
(***************************************************************************)
\* invocation c has issued a request to the endpoint
Requested(c, endpoint) ==
    \E i \in 1..Len(requests[c]) : requests[c][i].endpoint = endpoint

\* the transaction carries to and data of the intent and its value as a number
Carries(tx, intent) ==
    /\ tx.to = intent.to
    /\ tx.data = intent.data
    /\ tx.value = (IF intent.value = <<>> THEN 0 ELSE StrToNat(intent.value))

\* the first transaction of invocation c is its approval, and is confirmed
ApprovalConfirmed(c) ==
    /\ Len(txs[c]) >= 1
    /\ txs[c][1].confirmed
    /\ Carries(txs[c][1], intents[c].approve)

InEngine(c) ==
    pc[c] \in {"await_send_approve", "await_receipt_approve",
               "await_send_action", "await_receipt_action"}

\* the exact value of a decimal string times 10^k, its fraction cut at k digits
Scaled(s, k) ==
    LET p   == DecSplit(s)
        mag == StrToNat(p.integer) * Pow10(k)
                 + StrToNat(PadEnd0(Slice(p.fraction, 1, k), k))
    IN  IF p.negative THEN 0 - mag ELSE mag

FracLen(s) == Len(DecSplit(s).fraction)

\* a >= b as exact decimal numbers
DecGeq(a, b) ==
    LET k == IF FracLen(a) > FracLen(b) THEN FracLen(a) ELSE FracLen(b)
    IN  Scaled(a, k) >= Scaled(b, k)

\* an amount string in 6-decimal units
Units(s) == parseUnits(s, UsdcDecimals).wei

\* the cushion of the spec: a tenth of the nominal input rounded down, and one
\* unit when that is less than one unit
Cushion(nominalUnits) ==
    IF nominalUnits \div 10 >= 1 THEN nominalUnits \div 10 ELSE 1

\* the requests of invocation c to an endpoint
RequestsTo(c, endpoint) ==
    { requests[c][i] : i \in { j \in 1..Len(requests[c]) :
                                 requests[c][j].endpoint = endpoint } }

(***************************************************************************)
(* C1.  In buy(), the buy intent is requested, and the buy transaction     *)
(* submitted, only when the approve transaction of the same invocation has *)
(* been submitted and confirmed.                                           *)
(***************************************************************************)
C1_BuyAfterApprovalConfirmed ==
    \A c \in Calls :
        (op[c] = "buy" /\ (Requested(c, "intent/markets/buy") \/ Len(txs[c]) >= 2))
            => ApprovalConfirmed(c)

C1_Witness ==
    \E c \in Calls :
        /\ op[c] = "buy"
        /\ Requested(c, "intent/markets/buy")
        /\ Len(txs[c]) = 2

(***************************************************************************)
(* C2.  In sell(), the sell intent is requested and the sell transaction   *)
(* submitted only when the token-approve transaction of the same           *)
(* invocation has been submitted and confirmed.                            *)
(***************************************************************************)
C2_SellAfterApprovalConfirmed ==
    \A c \in Calls :
        (op[c] = "sell" /\ (Requested(c, "intent/markets/sell") \/ Len(txs[c]) >= 2))
            => ApprovalConfirmed(c)

C2_Witness ==
    \E c \in Calls :
        /\ op[c] = "sell"
        /\ Requested(c, "intent/markets/sell")
        /\ Len(txs[c]) = 2
        /\ pc[c] = "done"

\* the state of the write action, read off the transactions broadcast
ActionState(c) ==
    IF pc[c] = "failed" THEN "Failed"
    ELSE IF Len(txs[c]) = 0 THEN "Prepared"
    ELSE IF Len(txs[c]) = 1
         THEN (IF txs[c][1].confirmed THEN "ApprovalConfirmed" ELSE "ApprovalSubmitted")
    ELSE (IF txs[c][Len(txs[c])].confirmed THEN "ActionConfirmed" ELSE "ActionSubmitted")

LaunchOrder ==
    { <<"Prepared", "ApprovalSubmitted">>,
      <<"ApprovalSubmitted", "ApprovalConfirmed">>,
      <<"ApprovalConfirmed", "ActionSubmitted">>,
      <<"ActionSubmitted", "ActionConfirmed">> }

C3_LaunchStep(c) ==
    (op[c] = "launchToken" /\ op'[c] = "launchToken")
        => /\ \/ ActionState(c)' = ActionState(c)
              \/ ActionState(c)' = "Failed"
              \/ <<ActionState(c), ActionState(c)'>> \in LaunchOrder
           /\ Len(txs'[c]) >= 1 => Carries(txs'[c][1], intents'[c].approve)
           /\ Len(txs'[c]) >= 2 => /\ Carries(txs'[c][2], intents'[c].action)
                                   /\ txs'[c][1].confirmed
           /\ Len(txs'[c]) <= 2

(***************************************************************************)
(* C3.  In launchToken(), the create-token transaction is submitted only   *)
(* after the approve-seed transaction has been submitted and confirmed:    *)
(* the invocation passes ApprovalSubmitted, ApprovalConfirmed,             *)
(* ActionSubmitted and ActionConfirmed in that order, skipping none (or    *)
(* fails on the way).                                                      *)
(***************************************************************************)
C3_LaunchOrdered == [][\A c \in Calls : C3_LaunchStep(c)]_vars

C3_Witness ==
    \E c \in Calls :
        /\ op[c] = "launchToken"
        /\ pc[c] = "done"
        /\ ActionState(c) = "ActionConfirmed"

(***************************************************************************)
(* C4.  A dry-run launch (prepareLaunchToken, and the CLI's                *)
(* `launch --dry-run`) never enters executeIntent and submits no           *)
(* transaction, whether it succeeds or fails.                              *)
(***************************************************************************)
C4_DryRunNoTransaction ==
    \A c \in Calls :
        (op[c] = "prepareLaunchToken" \/ (args[c].cli /\ args[c].dryRun))
            => /\ txs[c] = <<>>
               /\ ~InEngine(c)
               /\ result[c].hash = 0

C4_Witness ==
    \E c \in Calls :
        /\ hasSigner
        /\ args[c].cli /\ args[c].dryRun
        /\ op[c] = "prepareLaunchToken"
        /\ pc[c] = "done"
        /\ intents[c].approve # NoIntent /\ intents[c].action # NoIntent

\* executeIntent has been called in invocation c: buy and sell call it when
\* the approve intent arrives, launchToken when the create intent arrives
ExecuteIntentCalled(c) ==
    \/ op[c] \in {"buy", "sell"} /\ intents[c].approve # NoIntent
    \/ op[c] = "launchToken" /\ intents[c].action # NoIntent

(***************************************************************************)
(* C5.  On an SDK constructed without a private key, every executeIntent   *)
(* fails with the signer-required error and submits nothing: launchToken,  *)
(* buy and sell never succeed and leave zero transactions.                 *)
(***************************************************************************)
C5_NoSignerNoExecution ==
    ~hasSigner =>
        \A c \in Calls :
            /\ txs[c] = <<>>
            /\ ~InEngine(c)
            /\ op[c] \in {"launchToken", "buy", "sell"} => pc[c] # "done"
            /\ ExecuteIntentCalled(c)
                  => pc[c] = "failed" /\ result[c].error = "SignerRequired"

C5_Witness ==
    /\ ~hasSigner
    /\ \E c \in Calls :
          /\ op[c] = "buy"
          /\ ExecuteIntentCalled(c)
          /\ result[c].error = "SignerRequired"


Ten == <<"1", "0">>

OnePointFive == <<"1", ".", "5">>

TwelvePointFive == <<"1", "2", ".", "5">>

(***************************************************************************)
(* C6.  When the quote fetch of buy() succeeds (and its feePaid is a       *)
(* decimal number or missing), the amount of the approve-intent request is *)
(* nominal input + feePaid + cushion in 6-decimal units, the cushion being *)
(* a tenth of the nominal input rounded down, at least one unit; usdcIn 10 *)
(* with feePaid 1.5 gives "12.5".                                          *)
(***************************************************************************)
C6_BuyApproveAmountQuoted ==
    \A c \in Calls :
        (op[c] = "buy" /\ local[c].quote = "ok" /\ IsDecimalString(local[c].feePaid))
            => /\ Requested(c, "intent/markets/approve")
               /\ \A r \in RequestsTo(c, "intent/markets/approve") :
                     /\ IsDecimalString(r.amount)
                     /\ FracLen(r.amount) <= UsdcDecimals
                     /\ Units(r.amount) = Units(args[c].amount)
                                            + Units(local[c].feePaid)
                                            + Cushion(Units(args[c].amount))
                     /\ (args[c].amount = Ten /\ local[c].feePaid = OnePointFive)
                           => r.amount = TwelvePointFive

C6_Witness ==
    \E c \in Calls :
        /\ op[c] = "buy"
        /\ local[c].quote = "ok"
        /\ args[c].amount = Ten
        /\ local[c].feePaid = OnePointFive
        /\ \E r \in RequestsTo(c, "intent/markets/approve") : r.amount = TwelvePointFive

(***************************************************************************)
(* C7.  As claimed: when the quote fetch of buy() fails, the amount of the *)
(* approve-intent request equals the nominal input exactly, no cushion     *)
(* added.  The code adds the cushion after the try/catch, on both paths.   *)
(***************************************************************************)
C7_UnquotedAmountIsNominal ==
    \A c \in Calls :
        (op[c] = "buy" /\ local[c].quote = "failed")
            => \A r \in RequestsTo(c, "intent/markets/approve") :
                  DecGeq(r.amount, args[c].amount) /\ DecGeq(args[c].amount, r.amount)

(***************************************************************************)
(* C7, amended.  When the quote fetch of buy() fails, the failure is       *)
(* recovered locally (the approve intent is still requested) and the       *)
(* amount requested is the nominal input plus the cushion; only the fee is *)
(* left out.                                                               *)
(***************************************************************************)
C7_UnquotedAmountIsNominalPlusCushion ==
    \A c \in Calls :
        (op[c] = "buy" /\ local[c].quote = "failed")
            => /\ Requested(c, "intent/markets/approve")
               /\ \A r \in RequestsTo(c, "intent/markets/approve") :
                     /\ IsDecimalString(r.amount)
                     /\ FracLen(r.amount) <= UsdcDecimals
                     /\ Units(r.amount) = Units(args[c].amount)
                                            + Cushion(Units(args[c].amount))

C7_Witness ==
    \E c \in Calls :
        /\ op[c] = "buy"
        /\ local[c].quote = "failed"
        /\ Requested(c, "intent/markets/approve")
        /\ args[c].amount = Ten
        /\ pc[c] = "done"

ApproveEndpoints ==
    {"intent/factory/approve-seed", "intent/markets/approve", "intent/tokens/approve"}

AtLeastNominal(amount, nominal) ==
    \/ amount = nominal
    \/ /\ IsDecimalString(amount) /\ IsDecimalString(nominal)
       /\ DecGeq(amount, nominal)

C9_SellRequests ==
    \A c \in Calls :
        op[c] = "sell" =>
            /\ Len(requests[c]) \in {1, 2}
            /\ requests[c][1].endpoint = "intent/tokens/approve"
            /\ requests[c][1].addr = args[c].token
            /\ requests[c][1].amount = args[c].amount
            /\ requests[c][1].spender = args[c].market
            /\ Len(requests[c]) = 2 =>
                  /\ requests[c][2].endpoint = "intent/markets/sell"
                  /\ requests[c][2].addr = args[c].market
                  /\ requests[c][2].amount = args[c].amount
                  /\ requests[c][2].slippageBps = args[c].slippageBps

C9_Witness ==
    \E c \in Calls :
        /\ op[c] = "sell"
        /\ Len(requests[c]) = 2
        /\ FracLen(args[c].amount) > UsdcDecimals
        /\ args[c].slippageBps = 100

\* the executeIntent of the approval has returned: its caller has moved on
ApprovalReturned(c) ==
    \/ Len(txs[c]) >= 2
    \/ pc[c] \in {"await_send_action", "await_receipt_action", "done"}
    \/ Requested(c, "intent/markets/buy")
    \/ Requested(c, "intent/markets/sell")

(***************************************************************************)
(* C10.  executeIntent submits exactly one transaction, carrying to, data  *)
(* and value of its intent, and returns that transaction's hash only once  *)
(* the network has reported that transaction confirmed.                    *)
(***************************************************************************)
C10_ExecuteIntent ==
    \A c \in Calls :
        op[c] \in {"launchToken", "buy", "sell"} =>
            /\ Len(txs[c]) <= 2
            /\ Len(txs[c]) >= 1 => Carries(txs[c][1], intents[c].approve)
            /\ Len(txs[c]) >= 2 => /\ Carries(txs[c][2], intents[c].action)
                                   /\ txs[c][2].hash # txs[c][1].hash
            /\ pc[c] \in {"await_receipt_approve", "await_send_action"}
                  => Len(txs[c]) = 1
            /\ pc[c] \in {"await_receipt_action", "done"} => Len(txs[c]) = 2
            /\ ApprovalReturned(c) => Len(txs[c]) >= 1 /\ txs[c][1].confirmed
            /\ result[c].hash # 0 =>
                  /\ pc[c] = "done"
                  /\ result[c].hash = txs[c][2].hash
                  /\ txs[c][2].confirmed
            /\ pc[c] = "done" => result[c].hash # 0

C10_Witness ==
    \E c \in Calls :
        /\ op[c] = "buy"
        /\ pc[c] = "done"
        /\ result[c].hash = txs[c][2].hash
        /\ intents[c].action.value = <<"7">>
        /\ intents[c].approve.value = <<>>

\* a step of invocation c after which it has failed with its approval confirmed
C11_Step(c) ==
    (pc'[c] = "failed" /\ ApprovalConfirmed(c))
        => /\ txs'[c] = txs[c]
           /\ requests'[c] = requests[c]
           /\ ApprovalConfirmed(c)'
           /\ Len(txs'[c]) = 2 => Carries(txs'[c][2], intents'[c].action)

(***************************************************************************)
(* C11.  When the approval transaction of a write action has confirmed and *)
(* the dependent action then fails (its intent request, its submission or  *)
(* its confirmation), the step that fails and every later step of the      *)
(* invocation submit no transaction and issue no request: the approval     *)
(* stays as it was confirmed, and nothing compensates or revokes it.       *)
(***************************************************************************)
C11_ApprovalStaysOnFailure == [][\A c \in Calls : C11_Step(c)]_vars

C11_Witness ==
    \E c \in Calls :
        /\ op[c] = "buy"
        /\ pc[c] = "failed"
        /\ ApprovalConfirmed(c)
        /\ Len(txs[c]) = 2
        /\ ~txs[c][2].confirmed
        /\ Len(requests[c]) = 3

\* the awaits of a method in the order its code reaches them
AwaitOrder(method) ==
    IF method \in {"buy", "sell"}
    THEN << "idle", "await_quote", "await_approve_intent",
            "await_send_approve", "await_receipt_approve",
            "await_action_intent", "await_send_action",
            "await_receipt_action", "done", "failed" >>
    ELSE << "idle", "await_readFile", "await_upload", "await_approve_intent",
            "await_action_intent", "await_send_approve",
            "await_receipt_approve", "await_send_action",
            "await_receipt_action", "done", "failed" >>

PositionIn(order, label) ==
    CHOOSE i \in 1..Len(order) : order[i] = label

\* no endpoint is requested twice by invocation c
EachRequestOnce(c) ==
    \A i, j \in 1..Len(requests[c]) :
        requests[c][i].endpoint = requests[c][j].endpoint => i = j

\* a step of invocation c: it moves forward in the order of its awaits, adds
\* at most one request and one transaction, and does nothing once it failed
C12_Step(c) ==
    /\ (pc'[c] # pc[c] /\ pc'[c] # "idle")
          => /\ PositionIn(AwaitOrder(op'[c]), pc'[c])
                  > PositionIn(AwaitOrder(op'[c]), pc[c])
             /\ pc[c] # "done"
    /\ pc[c] = "failed"
          => \/ requests'[c] = requests[c] /\ txs'[c] = txs[c] /\ pc'[c] = "failed"
             \/ requests'[c] = <<>> /\ txs'[c] = <<>> /\ pc'[c] = "idle"
    /\ pc'[c] = "failed" => requests'[c] = requests[c] /\ txs'[c] = txs[c]
    /\ EachRequestOnce(c)'
    /\ Len(txs'[c]) <= 2
    /\ Len(txs'[c]) = 2 => txs'[c][1].confirmed
    /\ (pc'[c] = "failed") = (result'[c].error # "")

(***************************************************************************)
(* C12.  There is no retry: within one invocation every backend request    *)
(* and every transaction submission is attempted at most once (the         *)
(* invocation only moves forward through its awaits), and a failure other  *)
(* than that of the buy quote ends the invocation: the step that fails     *)
(* issues nothing, and nothing is issued after it.                         *)
(***************************************************************************)
C12_NoRetry == [][\A c \in Calls : C12_Step(c)]_vars

C12_Witness ==
    \E c \in Calls :
        /\ op[c] = "buy"
        /\ local[c].quote = "failed"
        /\ pc[c] = "failed"
        /\ result[c].error = "Rpc"
        /\ Len(txs[c]) = 1
        /\ ~txs[c][1].confirmed
        /\ Len(requests[c]) = 2

Twenty == <<"2", "0">>

\* the launch parameters of invocation c violate a field constraint of the
\* specification: name of 2 to 64 characters, symbol of 2 to 12 alphanumerics,
\* description of 5 to 500 characters, seed amount a number of at least 20
ViolatesFieldConstraint(c) ==
    \/ args[c].nameLen < 2 \/ args[c].nameLen > 64
    \/ ~args[c].symbolOk
    \/ args[c].descLen < 5 \/ args[c].descLen > 500
    \/ ~IsDecimalString(args[c].amount)
    \/ ~DecGeq(args[c].amount, Twenty)

(***************************************************************************)
(* C13.  An invocation of prepareLaunchToken or launchToken whose          *)
(* parameters violate a field constraint has failed with the validation    *)
(* error in its first step: it is never waiting for a file read, an image  *)
(* upload or an intent, and it has issued no request and no transaction.   *)
(***************************************************************************)
C13_ValidationBeforeNetwork ==
    \A c \in Calls :
        (op[c] \in {"prepareLaunchToken", "launchToken"} /\ ViolatesFieldConstraint(c))
            => /\ pc[c] = "failed"
               /\ result[c].error = "Validation"
               /\ requests[c] = <<>>
               /\ txs[c] = <<>>
               /\ local[c].imageUrl = ""

C13_Witness ==
    \E c \in Calls :
        /\ op[c] = "launchToken"
        /\ args[c].image = "path"
        /\ args[c].imageOk
        /\ args[c].socialsOk
        /\ args[c].amount = <<"1", "9", ".", "9">>
        /\ args[c].nameLen = 2 /\ args[c].symbolOk /\ args[c].descLen = 5
        /\ result[c].error = "Validation"

(***************************************************************************)
(* C14.  When a launch has failed with the invalid-URL error, the          *)
(* invocation has made no backend request, the image upload included.      *)
(***************************************************************************)
C14_InvalidUrlBeforeAnyRequest ==
    \A c \in Calls :
        (op[c] \in {"prepareLaunchToken", "launchToken"}
           /\ result[c].error = "InvalidUrl")
            => requests[c] = <<>>

\* the string without the white space at its ends
Trimmed(s) ==
    IF \A i \in 1..Len(s) : s[i] \in WhiteSpace THEN <<>>
    ELSE LET first == CHOOSE i \in 1..Len(s) :
                         s[i] \notin WhiteSpace /\ \A j \in 1..(i - 1) : s[j] \in WhiteSpace
             last  == CHOOSE i \in 1..Len(s) :
                         s[i] \notin WhiteSpace /\ \A j \in (i + 1)..Len(s) : s[j] \in WhiteSpace
         IN  [i \in 1..(last - first + 1) |-> s[first + i - 1]]

\* the value of a seed amount of SeedCases is a finite number of at least 20
SeedAtLeastTwenty(seedAmount) ==
    \E case \in SeedCases : case[1] = seedAmount /\ case[2] >= 2000

\* the constraints of the specification on the launch parameters
MeetsFieldConstraints(params) ==
    /\ Len(Trimmed(params.name)) \in 2..64
    /\ Len(Trimmed(params.symbol)) \in 2..12
    /\ \A i \in 1..Len(Trimmed(params.symbol)) :
          Trimmed(params.symbol)[i] \in Alphanumerics
    /\ Len(Trimmed(params.description)) \in 5..500
    /\ SeedAtLeastTwenty(params.seedAmount)

ShapeVerdict(width, height) ==
    IF width < 512 \/ height < 512 THEN "TooSmall"
    ELSE IF width > 2048 \/ height > 2048 THEN "TooLarge"
    ELSE IF width - height > 2 \/ height - width > 2 THEN "NotSquare"
    ELSE "accepted"

ShapeErrorOf(message) ==
    IF message = "Image too small" THEN "TooSmall"
    ELSE IF message = "Image too large" THEN "TooLarge"
    ELSE IF message = "Image must be square" THEN "NotSquare"
    ELSE IF message = "" THEN "accepted"
    ELSE "other"

ShapeExamples ==
    { <<511, 512, "TooSmall">>, <<512, 512, "accepted">>,
      <<2049, 2048, "TooLarge">>, <<1000, 900, "NotSquare">>,
      <<1000, 1001, "accepted">> }

RECURSIVE BigEndian(_)
BigEndian(bytes) ==
    IF bytes = <<>> THEN 0
    ELSE 256 * BigEndian(SubSeq(bytes, 1, Len(bytes) - 1)) + bytes[Len(bytes)]

\* the `count` bytes of the buffer from byte offset `offset` (the first byte
\* has offset 0)
BytesFrom(buffer, offset, count) ==
    [i \in 1..count |-> buffer[offset + i]]

ShapeMessages ==
    {"", "Image too small", "Image too large", "Image must be square"}

\* invocation c decoded dimensions: it returned, or failed on their shape
Decoded(c) == result[c].error \in ShapeMessages

(***************************************************************************)
(* C17.  For a buffer the sniffer classifies as PNG: with 24 bytes or more *)
(* the decoded width and height are the big-endian 32-bit numbers at byte  *)
(* offsets 16 and 20; with fewer the decoding fails with 'Invalid PNG      *)
(* image'.                                                                 *)
(***************************************************************************)
C17_PngDimensions ==
    \A c \in Calls :
        ( /\ op[c] = "normalizeImageInput"
          /\ detectImageType(args[c].imageFile).mime = "image/png" )
            => IF Len(args[c].imageFile) >= 24
               THEN /\ Decoded(c)
                    /\ local[c].width = BigEndian(BytesFrom(args[c].imageFile, 16, 4))
                    /\ local[c].height = BigEndian(BytesFrom(args[c].imageFile, 20, 4))
               ELSE /\ pc[c] = "failed"
                    /\ result[c].error = "Invalid PNG image"

C17_Witness ==
    \E c \in Calls :
        /\ op[c] = "normalizeImageInput"
        /\ Len(args[c].imageFile) = 24
        /\ Slice(args[c].imageFile, 1, 8) = PngSignature
        /\ local[c].width = 2147483647
        /\ local[c].height = 511

\* the byte pattern of a start-of-frame marker is at byte offset p
SofAt(buffer, p) ==
    /\ p >= 0
    /\ p + 1 < Len(buffer)
    /\ buffer[p + 1] = 255
    /\ buffer[p + 2] \in (192..207) \ {196, 200, 204}

SofPositions(buffer) == { p \in 0..Len(buffer) : SofAt(buffer, p) }

\* the buffer has exactly one start-of-frame marker, at p, and holds the two
\* 16-bit values at p+5 and p+7
OneFrameAt(buffer, p) ==
    /\ SofPositions(buffer) = {p}
    /\ p + 9 <= Len(buffer)

\* going from byte offset `from`, over bytes other than 0xFF one at a time
\* and over segments by their length (marker, then a 16-bit length L: 2 + L
\* bytes), one comes to stand on p
RECURSIVE ArrivesAt(_, _, _)
ArrivesAt(buffer, from, p) ==
    IF from = p THEN TRUE
    ELSE IF from > p THEN FALSE
    ELSE IF buffer[from + 1] # 255 THEN ArrivesAt(buffer, from + 1, p)
    ELSE /\ from + 4 <= Len(buffer)
         /\ ArrivesAt(buffer, from + 2 + BigEndian(BytesFrom(buffer, from + 2, 2)), p)

JpegCall(c) ==
    /\ op[c] = "normalizeImageInput"
    /\ detectImageType(args[c].imageFile).mime = "image/jpeg"

\* the decoder returned the values at p+5 and p+7 as height and width
FrameDecodedAt(c, p) ==
    /\ Decoded(c)
    /\ local[c].height = BigEndian(BytesFrom(args[c].imageFile, p + 5, 2))
    /\ local[c].width = BigEndian(BytesFrom(args[c].imageFile, p + 7, 2))

(***************************************************************************)
(* C18 as stated.  For a JPEG buffer with exactly one start-of-frame       *)
(* marker, at p, the decoder returns the height at p+5 and the width at    *)
(* p+7, whatever precedes the marker.                                      *)
(***************************************************************************)
C18_OneFrameAlwaysDecoded ==
    \A c \in Calls :
        JpegCall(c) =>
            \A p \in 0..Len(args[c].imageFile) :
                OneFrameAt(args[c].imageFile, p) => FrameDecodedAt(c, p)

(***************************************************************************)
(* C18.  For a JPEG buffer with exactly one start-of-frame marker, at p,   *)
(* the decoder returns the height at p+5 and the width at p+7 when the     *)
(* walk from offset 2 arrives at p (the bytes before p are bytes other     *)
(* than 0xFF and segments whose lengths lead to p) and the buffer has more *)
(* than p+9 bytes; otherwise it fails without dimensions.                  *)
(***************************************************************************)
C18_OneFrameDecodedWhenReached ==
    \A c \in Calls :
        JpegCall(c) =>
            \A p \in 0..Len(args[c].imageFile) :
                OneFrameAt(args[c].imageFile, p) =>
                    IF ArrivesAt(args[c].imageFile, 2, p)
                         /\ Len(args[c].imageFile) > p + 9
                    THEN FrameDecodedAt(c, p)
                    ELSE /\ pc[c] = "failed"
                         /\ result[c].error \in
                              {"Could not parse JPEG dimensions", "ERR_OUT_OF_RANGE"}

C18_Witness ==
    \E c \in Calls :
        /\ JpegCall(c)
        /\ OneFrameAt(args[c].imageFile, 12)
        /\ ArrivesAt(args[c].imageFile, 2, 12)
        /\ Len(args[c].imageFile) = 22
        /\ local[c].height = 512
        /\ local[c].width = 768

(***************************************************************************)
(* C19.  For a buffer classified as JPEG that holds no start-of-frame      *)
(* marker (a truncated buffer or one that ends in 0xFF included), the      *)
(* decoding fails with 'Could not parse JPEG dimensions' and with no other *)
(* error.                                                                  *)
(***************************************************************************)
C19_NoFrameCannotParse ==
    \A c \in Calls :
        (JpegCall(c) /\ SofPositions(args[c].imageFile) = {})
            => /\ pc[c] = "failed"
               /\ result[c].error = "Could not parse JPEG dimensions"

\* the format the first bytes are the signature of
FormatOfBytes(bytes) ==
    IF Len(bytes) > 8 /\ SubSeq(bytes, 1, 8) = <<137, 80, 78, 71, 13, 10, 26, 10>>
    THEN "PNG"
    ELSE IF Len(bytes) > 3 /\ SubSeq(bytes, 1, 3) = <<255, 216, 255>>
    THEN "JPEG"
    ELSE "none"

\* the declared MIME type names the format, image/jpg standing for JPEG too
DeclaredAgrees(declared, format) ==
    \/ toLowerCase(declared) = ImagePng /\ format = "PNG"
    \/ toLowerCase(declared) \in {ImageJpeg, ImageJpg} /\ format = "JPEG"

\* what C20 says of a call given the data URL of `declared` and `bytes`
C20_Case(c, declared, bytes) ==
    /\ ( /\ toLowerCase(declared) \in {ImagePng, ImageJpeg, ImageJpg}
         /\ FormatOfBytes(bytes) # "none"
         /\ ~DeclaredAgrees(declared, FormatOfBytes(bytes)) )
          => /\ pc[c] = "failed"
             /\ result[c].error = "Image MIME/content mismatch"
    /\ DeclaredAgrees(declared, FormatOfBytes(bytes))
          => result[c].error # "Image MIME/content mismatch"
    /\ pc[c] = "done"
          => /\ DeclaredAgrees(declared, FormatOfBytes(bytes))
             /\ local[c].dataUrl
                  = DataUrlOf(IF FormatOfBytes(bytes) = "PNG" THEN ImagePng
                                                               ELSE ImageJpeg, bytes)

(***************************************************************************)
(* C20.  For a data URL of the form the normalizer parses, carrying bytes  *)
(* of a format the sniffer knows: when the declared MIME differs from the  *)
(* sniffed format the normalization fails with the MIME mismatch error,    *)
(* except that image/jpg declared on JPEG bytes passes the test; no data   *)
(* URL is accepted whose declared format is not that of its bytes.         *)
(***************************************************************************)
C20_DeclaredMimeMatchesBytes ==
    \A c \in Calls :
        op[c] = "normalizeDataUrlImage" =>
            \A declared \in DeclaredInputs, bytes \in DataUrlBuffers :
                args[c].imageFile = DataUrlOf(declared, bytes)
                    => C20_Case(c, declared, bytes)

C20_Witness ==
    \E c \in Calls :
        /\ op[c] = "normalizeDataUrlImage"
        /\ \E bytes \in DataUrlBuffers :
              /\ args[c].imageFile = DataUrlOf(ImageJpg, bytes)
              /\ FormatOfBytes(bytes) = "PNG"
        /\ result[c].error = "Image MIME/content mismatch"

\* the call buildLaunchMetadata(params) of c has the bytes of an image
ImageAtHand(c) ==
    /\ op[c] = "buildLaunchMetadata"
    /\ pc[c] \notin {"idle", "await_readFile"}
    /\ local[c].imageLength > 0

\* the call of c has thrown the error of the size cap
CapError(c) ==
    pc[c] = "failed" /\ result[c].error = "Image exceeds 500KB hard cap."

C21_WitnessFile ==
    \E c \in Calls :
        /\ ImageAtHand(c)
        /\ local[c].file.kind = "Buffer"
        /\ local[c].imageLength = 512001
        /\ CapError(c)

\* a Buffer of exactly 512000 bytes passes the cap and is read as a PNG
C21_WitnessAtCap ==
    \E c \in Calls :
        /\ ImageAtHand(c)
        /\ args[c].imageFile.kind = "Buffer"
        /\ local[c].imageLength = 512000
        /\ local[c].width = 511
        /\ result[c].error # "Image exceeds 500KB hard cap."

\* c is in the while loop of parseImageDimensions
InWalk(c) == op[c] = "parseImageDimensions" /\ pc[c] = "loop"

(***************************************************************************)
(* C27.  Every pass of the marker walk either ends the call (it returns or *)
(* throws) or goes on at a larger offset: one more at a byte other than    *)
(* 0xFF, and 2 plus the segment length, hence at least 2 more, at a       *)
(* marker; a pass at an offset at or beyond the end of the buffer ends the *)
(* call.  So the walk ends on every buffer.                                *)
(***************************************************************************)
C27_WalkAdvances ==
    [][ \A c \in Calls :
          (InWalk(c) /\ <<pc[c], local[c]>>' # <<pc[c], local[c]>>) =>
             LET buffer == args[c].imageFile
                 offset == local[c].offset
             IN  \/ pc'[c] \in {"done", "failed"}
                 \/ /\ pc'[c] = "loop"
                    /\ offset < Len(buffer)
                    /\ local'[c].offset > offset
                    /\ IF ByteAt(buffer, offset) # 255
                       THEN local'[c].offset = offset + 1
                       ELSE /\ local'[c].offset
                                 = offset + 2 + ByteAt(buffer, offset + 2) * 256
                                     + ByteAt(buffer, offset + 3)
                            /\ local'[c].offset >= offset + 2 ]_vars

\* the walk has stepped over a segment of length 0 and stands two bytes on
C27_Witness ==
    \E c \in Calls :
        /\ InWalk(c)
        /\ Len(args[c].imageFile) >= 6
        /\ SubSeq(args[c].imageFile, 3, 6) = <<255, 224, 0, 0>>
        /\ local[c].offset = 4

\* the errors of launchToken that arise before its intents are at hand:
\* validation, the image and its upload, the social URLs, a request
PreparationErrors == {"Validation", "Image", "ReadFile", "InvalidUrl", "Api"}

\* the last two requests of c are those for the approve-seed and the create
\* intent, and both intents have arrived
BothIntentsReturned(c) ==
    LET n == Len(requests[c])
    IN  /\ n >= 2
        /\ requests[c][n - 1].endpoint = "intent/factory/approve-seed"
        /\ requests[c][n].endpoint = "intent/tokens/create"
        /\ pc[c] \notin {"await_readFile", "await_upload",
                         "await_approve_intent", "await_action_intent"}
        /\ intents[c].approve # NoIntent
        /\ intents[c].action # NoIntent

(***************************************************************************)
(* C25.  launchToken submits no transaction before the metadata is built   *)
(* and both intents have been returned: an invocation that has submitted a *)
(* transaction has requested the approve-seed and the create intent and    *)
(* holds both, and one that failed in validation, in the image, in the     *)
(* upload or in a request for an intent has submitted none.                *)
(***************************************************************************)
C25_NoTxBeforeIntents ==
    \A c \in Calls :
        op[c] = "launchToken" =>
            /\ txs[c] # <<>> => BothIntentsReturned(c)
            /\ (pc[c] = "failed" /\ result[c].error \in PreparationErrors)
                  => txs[c] = <<>>

\* a launch with an image has submitted its approval
C25_Witness ==
    \E c \in Calls :
        /\ op[c] = "launchToken"
        /\ Len(txs[c]) = 1
        /\ Len(requests[c]) = 3
        /\ BothIntentsReturned(c)

\* the character of a code, for the codes of CharCode
CodeChar(n) ==
    IF n = 9 THEN "\t"
    ELSE IF n = 10 THEN "\n"
    ELSE IF n < 96 THEN AsciiLow[n - 31]
    ELSE AsciiHigh[n - 96]

\* the JSON text a metadata URI carries
MetadataText(uri) ==
    LET bytes == Base64Decode(SubSeq(uri, 30, Len(uri)))
    IN  <<>> \o [i \in 1..Len(bytes) |-> CodeChar(bytes[i])]

\* where `"key":` begins in text, 0 when it does not occur
KeyPosition(text, key) ==
    LET pattern == <<"\"">> \o key \o <<"\"", ":">>
        starts  == { i \in 1..(Len(text) - Len(pattern) + 1) :
                       /\ text[i] = "\""
                       /\ SubSeq(text, i, i + Len(pattern) - 1) = pattern }
    IN  IF starts = {} THEN 0
        ELSE CHOOSE i \in starts : \A j \in starts : i <= j

\* the keys of the metadata in the order they are to appear in
OrderedKeys ==
    << << "n", "a", "m", "e" >>,
       << "s", "y", "m", "b", "o", "l" >>,
       << "d", "e", "s", "c", "r", "i", "p", "t", "i", "o", "n" >>,
       << "e", "x", "t", "e", "r", "n", "a", "l", "_", "u", "r", "l" >>,
       << "p", "l", "a", "t", "f", "o", "r", "m" >>,
       << "i", "m", "a", "g", "e" >>,
       << "w", "e", "b", "s", "i", "t", "e" >>,
       << "t", "w", "i", "t", "t", "e", "r" >>,
       << "t", "e", "l", "e", "g", "r", "a", "m" >>,
       << "d", "i", "s", "c", "o", "r", "d" >> >>

\* the metadata URI of c is a JSON data URI whose keys are the five fixed
\* ones, image when the upload gave a URL, and the social fields given, in
\* that order
KeysInOrder(c) ==
    LET uri  == local[c].metadataURI
        text == MetadataText(uri)
        pos  == [k \in 1..10 |-> KeyPosition(text, OrderedKeys[k])]
        given == << TRUE, TRUE, TRUE, TRUE, TRUE,
                    local[c].imageUrl # <<>>,
                    args[c].socials.website # <<>>,
                    args[c].socials.twitter # <<>>,
                    args[c].socials.telegram # <<>>,
                    args[c].socials.discord # <<>> >>
    IN  /\ SubSeq(uri, 1, 29) = JsonUriPrefix
        /\ pos[1] = 2
        /\ \A k \in 1..10 : (pos[k] > 0) = given[k]
        /\ \A j, k \in 1..10 :
              (j < k /\ pos[j] > 0 /\ pos[k] > 0) => pos[j] < pos[k]

\* the k-th answer the backend gave c: the url of the upload, the
\* approve-seed intent, the create intent
AnswerTo(c, k) ==
    LET endpoint == requests[c][k].endpoint
    IN  IF endpoint = "upload/image" THEN [url |-> local[c].imageUrl]
        ELSE IF endpoint = "intent/factory/approve-seed"
        THEN [intent |-> intents[c].approve]
        ELSE [intent |-> intents[c].action]

\* the backend answered identical requests of c and d identically
SameAnswers(c, d) ==
    \A k \in 1..Len(requests[c]) :
        (k <= Len(requests[d]) /\ requests[c][k] = requests[d][k])
            => AnswerTo(c, k) = AnswerTo(d, k)

\* c and d were called with the same parameters
SameParams(c, d) ==
    /\ args[c].imageFile.kind = args[d].imageFile.kind
    /\ args[c] = args[d]

\* prepareLaunchToken of c has returned
Prepared(c) == op[c] = "prepareLaunchToken" /\ pc[c] = "done"

(***************************************************************************)
(* C22.  Two calls of prepareLaunchToken that have returned, made with the *)
(* same parameters and given the same answers to the same requests, have   *)
(* the same metadataURI, the same imageUrl and the same approve and create *)
(* intents; the metadataURI of every call carries its keys in the order    *)
(* name, symbol, description, external_url, platform, image, website,      *)
(* twitter, telegram, discord; and no call of prepareLaunchToken submits a *)
(* transaction.                                                            *)
(***************************************************************************)
C22_DryRunIdempotent ==
    /\ \A c \in Calls :
          op[c] = "prepareLaunchToken" =>
              /\ txs[c] = <<>>
              /\ pc[c] = "done" => KeysInOrder(c)
    /\ \A c, d \in Calls :
          (Prepared(c) /\ Prepared(d) /\ SameParams(c, d) /\ SameAnswers(c, d))
              => /\ requests[c] = requests[d]
                 /\ local[c].metadataURI = local[d].metadataURI
                 /\ local[c].imageUrl = local[d].imageUrl
                 /\ intents[c] = intents[d]

\* two dry runs of the same launch with an image and two social URLs have
\* both returned
C22_Witness ==
    /\ \A c \in Calls : Prepared(c) /\ Len(requests[c]) = 3
    /\ SameParams(1, 2)
    /\ args[1].socials.discord # <<>>
    /\ local[1].imageUrl # <<>>
    /\ SameAnswers(1, 2)

\* the bytes of the image buildLaunchMetadata of c was given: those of the
\* Buffer, those the data URL carries, those read from the file
ImageBytesOf(c) ==
    LET route == ImageRoute(args[c].imageFile)
    IN  IF route = "buffer" THEN Contents(args[c].imageFile)
        ELSE IF route = "dataUrl"
        THEN DataUrlBuffer(Contents(args[c].imageFile))
        ELSE IF route = "readFile" THEN Contents(local[c].file)
        ELSE <<>>

\* the requests of c that upload an image
UploadsOf(c) ==
    { k \in 1..Len(requests[c]) : requests[c][k].endpoint = "upload/image" }

\* width and height are within 512..2048 and differ by 2 at most
GoodShape(width, height) ==
    /\ width >= 512 /\ width <= 2048
    /\ height >= 512 /\ height <= 2048
    /\ width - height <= 2 /\ height - width <= 2

\* the image of c passes the size cap, the format sniff, the MIME agreement
\* when it came in a data URL, the dimension decode and the shape test
PassesLocalChecks(c) ==
    LET bytes  == ImageBytesOf(c)
        format == FormatOfBytes(bytes)
        dims   == parseImageDimensions(
                    bytes, IF format = "PNG" THEN "image/png" ELSE "image/jpeg")
    IN  /\ Len(bytes) <= 512000
        /\ format # "none"
        /\ ImageRoute(args[c].imageFile) = "dataUrl"
              => DeclaredAgrees(DataUrlMatch(Contents(args[c].imageFile)).mime,
                                format)
        /\ dims.error = ""
        /\ GoodShape(dims.width, dims.height)

\* the data URL of the image of c under the MIME type of its format
NormalizedDataUrl(c) ==
    LET bytes == ImageBytesOf(c)
    IN  DataUrlOf(IF FormatOfBytes(bytes) = "PNG" THEN ImagePng ELSE ImageJpeg,
                  bytes)

(***************************************************************************)
(* C28.  Whenever buildLaunchMetadata has requested an upload, an image    *)
(* was supplied (as a data URL, a Buffer or a file), that image passes     *)
(* every local check (size cap, format sniff, MIME agreement for a data    *)
(* URL, dimension decode, shape), the request is the only upload of the    *)
(* call and its payload is the normalized data URL of the image; with no   *)
(* image supplied there is no upload request.                              *)
(***************************************************************************)
C28_UploadAfterChecks ==
    \A c \in Calls :
        op[c] = "buildLaunchMetadata" =>
            \A k \in UploadsOf(c) :
                /\ UploadsOf(c) = {k}
                /\ ImageRoute(args[c].imageFile) \in {"dataUrl", "buffer", "readFile"}
                /\ PassesLocalChecks(c)
                /\ requests[c][k].body.image = NormalizedDataUrl(c)

\* a data URL that declares image/jpg was uploaded as image/jpeg
C28_Witness ==
    \E c \in Calls :
        /\ op[c] = "buildLaunchMetadata"
        /\ UploadsOf(c) = {1}
        /\ ImageRoute(args[c].imageFile) = "dataUrl"
        /\ toLowerCase(DataUrlMatch(Contents(args[c].imageFile)).mime) = ImageJpg
        /\ requests[c][1].body.image # Contents(args[c].imageFile)
        /\ PassesLocalChecks(c)

\* an image read from a file was uploaded
C28_WitnessFile ==
    \E c \in Calls :
        /\ op[c] = "buildLaunchMetadata"
        /\ UploadsOf(c) = {1}
        /\ ImageRoute(args[c].imageFile) = "readFile"

(***************************************************************************)
(* C23.  The core does not serialize write actions: whenever an invocation *)
(* is about to submit a transaction while another one is between the       *)
(* submission of its approval and the confirmation of its action, the      *)
(* submission can go ahead; and whenever an invocation is idle a sale can  *)
(* be started on it whatever the other one is doing.                       *)
(***************************************************************************)
C23_NotSerialized ==
    \A c \in Calls :
        /\ ( /\ pc[c] \in {"await_send_approve", "await_send_action"}
             /\ \E d \in Calls \ {c} : BetweenApprovalAndAction(d) )
              => ENABLED SendReturn(c, TRUE)
        /\ pc[c] = "idle"
              => ENABLED SellBegin(c, "0xMarketA", OverlapAmount, "0xToken", 100)

\* a purchase has submitted its approval, which is not confirmed yet, while
\* a sale is waiting for the confirmation of its own approval: whichever of
\* the two was submitted last was submitted while the other invocation was
\* between its approval and its action
C23_Witness ==
    \E c, d \in Calls :
        /\ c # d
        /\ op[c] = "buy" /\ pc[c] = "await_receipt_approve"
        /\ op[d] = "sell" /\ pc[d] = "await_receipt_approve"
        /\ Len(txs[c]) = 1 /\ ~txs[c][1].confirmed
        /\ Len(txs[d]) = 1 /\ ~txs[d][1].confirmed

\* what belongs to the invocation c
Own(c) ==
    << op[c], pc[c], args[c], local[c], intents[c], requests[c], txs[c],
       result[c] >>

Terminal(c) == pc[c] \in {"done", "failed"}

ConfirmationPending(c) ==
    pc[c] \in {"await_receipt_approve", "await_receipt_action"}

\* the terminal state of c is one of: dry run complete (no transaction),
\* action confirmed (every transaction confirmed, the hash of the last one
\* returned), failed (an error and no hash)
OneTerminalState(c) ==
    IF pc[c] = "failed" THEN result[c].error # "" /\ result[c].hash = 0
    ELSE /\ result[c].error = ""
         /\ IF op[c] = "prepareLaunchToken" THEN txs[c] = <<>>
            ELSE /\ op[c] \in {"launchToken", "buy", "sell"}
                 /\ Len(txs[c]) = 2
                 /\ \A k \in 1..2 : txs[c][k].confirmed
                 /\ result[c].hash = txs[c][2].hash

(***************************************************************************)
(* C26.  With collaborators that return or fail in the end, every          *)
(* invocation that was started reaches a terminal state: dry run complete, *)
(* action confirmed, or failed.  After that it takes no step (the caller   *)
(* has its outcome), and while it waits for a confirmation it takes no     *)
(* step but the one the arrival of the receipt, or its failure, sets off.  *)
(***************************************************************************)
C26_ReachesOneTerminalState ==
    /\ \A c \in Calls : (pc[c] # "idle") ~> Terminal(c)
    /\ [](\A c \in Calls : Terminal(c) => OneTerminalState(c))
    /\ [][ \A c \in Calls :
             /\ Terminal(c) => (Own(c)' = Own(c) \/ pc'[c] = "idle")
             /\ ConfirmationPending(c) =>
                   \/ Own(c)' = Own(c)
                   \/ /\ Len(txs'[c]) = Len(txs[c])
                      /\ \/ pc'[c] = "failed"
                         \/ txs'[c][Len(txs[c])].confirmed ]_vars

\* a purchase has had both its transactions confirmed
C26_Witness ==
    \E c \in Calls :
        /\ op[c] = "buy"
        /\ pc[c] = "done"
        /\ Len(txs[c]) = 2
        /\ txs[c][1].confirmed /\ txs[c][2].confirmed

\* the run of c was given --json and has ended
JsonRunEnded(c) ==
    op[c] = "cli" /\ pc[c] \in {"done", "failed"} /\ args[c].json

\* the lines of c's output that are JSON objects
JsonLinesOf(c) ==
    LET written == result[c].stdout \o result[c].stderr
    IN  SelectSeq(written, LAMBDA line : line.json)

(***************************************************************************)
(* C24.  Every command run with --json writes exactly one JSON object:     *)
(* {success: true, ...} when it succeeds, {success: false, error} when it  *)
(* fails, whatever the cause.                                              *)
(***************************************************************************)
C24_JsonOutputAlways ==
    \A c \in Calls :
        JsonRunEnded(c) =>
            /\ Len(JsonLinesOf(c)) = 1
            /\ JsonLinesOf(c)[1].success = (pc[c] = "done")

\* what does hold: when createSDK has not failed, a run with --json writes
\* exactly one JSON object, on stdout when it succeeds and on stderr when it
\* fails
JsonOutputAfterCreateSDK ==
    \A c \in Calls :
        ( /\ JsonRunEnded(c)
          /\ ~UnsupportedNetwork(args[c].network, args[c].envNetwork)
          /\ ~(RequireSigner(args[c].command) /\ ~hasSigner) )
            => /\ Len(JsonLinesOf(c)) = 1
               /\ JsonLinesOf(c)[1].success = (pc[c] = "done")

====
